---- MODULE Spec2Model ----
(***************************************************************************)
(* Multi-tenant aggregation engine of reports-nutresa-maestro              *)
(* (app/services/report_service.py, app/core/database.py,                  *)
(* app/api/routes/reports.py) as a state machine.                          *)
(*                                                                         *)
(* Strings the code inspects (agent names, variable display names) are     *)
(* sequences of one-character strings, so that strip/upper/split and the   *)
(* substring test are computed, not assumed.  Amounts (goals, incentives)  *)
(* are integers counting 1/1000 of a unit (an AVG of goals has decimals);   *)
(* percentages are integers counting 1/100 of a percent.                   *)
(***************************************************************************)
EXTENDS Integers, Sequences, FiniteSets, TLC

\* ------------------------------------------------------------------ bounds
\* Longest name, in words, given to the identity resolver.
MaxWords == 2

\* ----------------------------------------------------------------- strings
LowerCase == <<"a","b","c","d","e","f","g","h","i","j","k","l","m","n","o","p",
               "q","r","s","t","u","v","w","x","y","z","ó">>
UpperCase == <<"A","B","C","D","E","F","G","H","I","J","K","L","M","N","O","P",
               "Q","R","S","T","U","V","W","X","Y","Z","Ó">>

\* str.upper(), one character
UpperChar(c) ==
    IF \E i \in 1..Len(LowerCase) : LowerCase[i] = c
    THEN UpperCase[CHOOSE i \in 1..Len(LowerCase) : LowerCase[i] = c]
    ELSE c

\* str.lower(), one character (used to write test inputs only)
LowerChar(c) ==
    IF \E i \in 1..Len(UpperCase) : UpperCase[i] = c
    THEN LowerCase[CHOOSE i \in 1..Len(UpperCase) : UpperCase[i] = c]
    ELSE c

upper(s) == [i \in 1..Len(s) |-> UpperChar(s[i])]
lower(s) == [i \in 1..Len(s) |-> LowerChar(s[i])]

RECURSIVE lstrip(_)
lstrip(s) == IF s # <<>> /\ s[1] = " " THEN lstrip(Tail(s)) ELSE s

RECURSIVE rstrip(_)
rstrip(s) ==
    IF s # <<>> /\ s[Len(s)] = " " THEN rstrip(SubSeq(s, 1, Len(s) - 1)) ELSE s

\* str.strip()
strip(s) == rstrip(lstrip(s))

\* re.sub(r'\s+', ' ', s): every run of blanks becomes one blank
RECURSIVE CollapseBlanks(_)
CollapseBlanks(s) ==
    IF Len(s) < 2 THEN s
    ELSE IF s[1] = " " /\ s[2] = " " THEN CollapseBlanks(Tail(s))
    ELSE <<s[1]>> \o CollapseBlanks(Tail(s))

\* set(s.split()): the set of blank-separated words of s
RECURSIVE SplitAcc(_, _, _)
SplitAcc(s, cur, acc) ==
    IF s = <<>> THEN (IF cur = <<>> THEN acc ELSE acc \cup {cur})
    ELSE IF s[1] = " "
         THEN SplitAcc(Tail(s), <<>>, IF cur = <<>> THEN acc ELSE acc \cup {cur})
         ELSE SplitAcc(Tail(s), Append(cur, s[1]), acc)

WordSet(s) == SplitAcc(s, <<>>, {})

\* needle in haystack (Python's substring test)
Contains(haystack, needle) ==
    \E i \in 0..(Len(haystack) - Len(needle)) :
        SubSeq(haystack, i + 1, i + Len(needle)) = needle

\* words joined by `gap` blanks
RECURSIVE JoinWords(_, _)
JoinWords(ws, gap) ==
    IF ws = <<>> THEN <<>>
    ELSE IF Len(ws) = 1 THEN ws[1]
    ELSE ws[1] \o [i \in 1..gap |-> " "] \o JoinWords(Tail(ws), gap)

\* ------------------------------------------------------- identity resolver
\* a variant in which the function ends without its last return statement
UNKNOWN_None == "None"

\* line 60 (and line 32): return "UNKNOWN"
UNKNOWN == "UNKNOWN"

common_words ==
    { <<"S",".","A",".","S">>, <<"S","A","S">>, <<"S",".","A">>, <<"S","A">>,
      <<"L","T","D","A">>, <<"A","G","E","N","C","I","A">> }

\* a variant of the normalisation that keeps the letters' case
NormalizeNameKeepingCase(name) == CollapseBlanks(strip(name))

\* re.sub(r'\s+', ' ', name.strip().upper())
NormalizeName(name) == CollapseBlanks(upper(strip(name)))

agent_important_words(normalized_agent_name) ==
    WordSet(normalized_agent_name) \ common_words

\* a variant of the threshold that asks for half of the words
ClearsThresholdOfHalf(agent_words, json_words) ==
    LET intersection == agent_words \cap json_words
    IN  /\ agent_words # {}
        /\ json_words # {}
        /\ Cardinality(intersection) >= 1
        /\ 2 * Cardinality(intersection) >= Cardinality(agent_words)

\* len(intersection) >= max(1, len(agent_important_words) * 0.7)
ClearsThreshold(agent_words, json_words) ==
    LET intersection == agent_words \cap json_words
    IN  /\ agent_words # {}
        /\ json_words # {}
        /\ Cardinality(intersection) >= 1
        /\ 10 * Cardinality(intersection) >= 7 * Cardinality(agent_words)

\* the for loop over self.nin_data, from item i on
RECURSIVE ScanNinData(_, _, _)
ScanNinData(normalized_agent_name, nin_data, i) ==
    IF i > Len(nin_data) THEN UNKNOWN
    ELSE LET item == nin_data[i]
             normalized_json_name == NormalizeName(item.ac)
         IN  IF normalized_agent_name = normalized_json_name THEN item.nin
             ELSE IF ClearsThreshold(agent_important_words(normalized_agent_name),
                                     agent_important_words(normalized_json_name))
                  THEN item.nin
                  ELSE ScanNinData(normalized_agent_name, nin_data, i + 1)

get_agent_code_by_name(agent_name, nin_data) ==
    IF agent_name = <<>> \/ nin_data = <<>> THEN UNKNOWN
    ELSE ScanNinData(NormalizeName(agent_name), nin_data, 1)

\* ---------------------------------------------------------------- numbers
\* n / d rounded to the nearest integer (n >= 0, d > 0); an exact half goes
\* to the even neighbour, as Python's round does for an exact tie.
RoundDiv(n, d) ==
    LET q == n \div d
        r == n % d
    IN  IF 2 * r < d THEN q
        ELSE IF 2 * r > d THEN q + 1
        ELSE IF q % 2 = 0 THEN q ELSE q + 1

\* round(x, 2) of an amount counted in 1/1000: the nearest multiple of 10
round2(x) == 10 * RoundDiv(x, 10)

\* round((num / den) * 100, 2), counted in 1/100 of a percent.  Python
\* raises ZeroDivisionError when den is 0: that is the negative result.
Percentage(num, den) ==
    IF den = 0 THEN -1 ELSE RoundDiv(num * 10000, den)

RECURSIVE SumOf(_, _)
SumOf(seq, field) ==
    IF seq = <<>> THEN 0 ELSE Head(seq)[field] + SumOf(Tail(seq), field)

\* ------------------------------------------------------------ agent names
TOTAL == <<"T","O","T","A","L">>
None == "None"

agent_names ==
    <<
      <<<<"1","0","3","0","7","7","3">>,
        <<"A",".","H",".","H","."," ","D","I","S","T","R","I","B","U","C","I","O","N","E","S"," ","S",".","A",".","S">>>>,
      <<<<"1","0","8","9","7","2","3">>,
        <<"A","G","E","N","C","I","A"," ","C","O","M","E","R","C","I","A","L"," ","N","U","T","R","I","C","O","L"," ","S","A","S">>>>,
      <<<<"c","o","m","e","r","c","r","u","z">>,
        <<"C","O","M","E","R","C","R","U","Z"," ","D","I","S","T","R","I","B","U","C","I","O","N","E","S">>>>,
      <<<<"s","a","n","t","i","a","g","o","d","e","t","u","n","j","a">>,
        <<"S","A","N","T","I","A","G","O"," ","D","E"," ","T","U","N","J","A"," ","C","O","M","E","R","C","I","A","L">>>>,
      <<<<"m","a","x","g","o","l">>,
        <<"M","A","X","G","O","L"," ","D","I","S","T","R","I","B","U","C","I","O","N","E","S">>>>,
      <<<<"d","i","s","t","r","i","m","a","r","c","a","s","a","g","e","n","t","e","c","o","m","e","r","c","i","a","l">>,
        <<"D","I","S","T","R","I","M","A","R","C","A","S"," ","A","G","E","N","T","E"," ","C","O","M","E","R","C","I","A","L">>>>,
      <<<<"j","y","d","d","i","s","t","r","i","b","u","c","i","o","n","e","s">>,
        <<"J","Y","D"," ","D","I","S","T","R","I","B","U","C","I","O","N","E","S">>>>
    >>

\* agent_names.get(subdomain, f"AGENCIA COMERCIAL {subdomain.upper()}")
get_agent_name_by_subdomain(subdomain) ==
    IF \E k \in 1..Len(agent_names) : agent_names[k][1] = subdomain
    THEN agent_names[CHOOSE k \in 1..Len(agent_names) : agent_names[k][1] = subdomain][2]
    ELSE <<"A","G","E","N","C","I","A"," ","C","O","M","E","R","C","I","A","L"," ">>
         \o upper(subdomain)

\* f"Periodo {period_id}"
PeriodoLabel(period_id) == <<"Periodo", ToString(period_id)>>

\* -------------------------------------------------------------- mock data
mock_variables_data ==
    << [variable_name |-> <<"C","S","I"," ","-"," ","F","r","i","j","o","l","e","s"," ","Z","e","n","ú"," ","2","d","a"," ","E","t","a","p","a">>,
        total_meta_asignada |-> 0, total_meta_distribuida |-> 0,
        total_incentivo_asignado |-> 0, total_incentivo_distribuido |-> 0,
        porcentaje_variables_completadas |-> 0],
       [variable_name |-> <<"C","S","I"," ","-"," ","S","n","a","c","k"," ","d","e"," ","P","e","l","í","c","u","l","a">>,
        total_meta_asignada |-> 3000, total_meta_distribuida |-> 0,
        total_incentivo_asignado |-> 150000, total_incentivo_distribuido |-> 0,
        porcentaje_variables_completadas |-> 0],
       [variable_name |-> <<"C","S","I"," ","-"," ","T","o","s","h"," ","M","a","n","z","a","n","i","l","l","a"," ","L","i","m","o","n","c","i","l","l","o"," ","2","d","a"," ","E","t","a","p","a">>,
        total_meta_asignada |-> 0, total_meta_distribuida |-> 0,
        total_incentivo_asignado |-> 0, total_incentivo_distribuido |-> 0,
        porcentaje_variables_completadas |-> 0],
       [variable_name |-> <<"C","S","I","-"," ","A","h","o","r","r","a","m","a","x"," ","2","d","a"," ","E","t","a","p","a"," ","A","U">>,
        total_meta_asignada |-> 0, total_meta_distribuida |-> 0,
        total_incentivo_asignado |-> 0, total_incentivo_distribuido |-> 0,
        porcentaje_variables_completadas |-> 0],
       [variable_name |-> <<"C","S","I","-"," ","A","h","o","r","r","a","m","a","x"," ","2","d","a"," ","E","t","a","p","a"," ","T","D">>,
        total_meta_asignada |-> 0, total_meta_distribuida |-> 0,
        total_incentivo_asignado |-> 0, total_incentivo_distribuido |-> 0,
        porcentaje_variables_completadas |-> 0],
       [variable_name |-> <<"D","N"," ","-"," ","L","a"," ","E","s","p","e","c","i","a","l"," ","N","u","e","c","e","s">>,
        total_meta_asignada |-> 1327000, total_meta_distribuida |-> 0,
        total_incentivo_asignado |-> 500000, total_incentivo_distribuido |-> 0,
        porcentaje_variables_completadas |-> 0] >>

\* the division of line 204 without the condition of line 205
MockPorcentajeMetaUnguarded(var_data) ==
    Percentage(var_data.total_meta_distribuida, var_data.total_meta_asignada)

\* lines 203-205: the goal percentage of one mock variable
MockPorcentajeMeta(var_data) ==
    IF var_data.total_meta_asignada > 0
    THEN Percentage(var_data.total_meta_distribuida, var_data.total_meta_asignada)
    ELSE 0

\* a variant of lines 208-222 without the two trailing keys
MockReportRowWithoutIds(var_data, agent_name, codigo_agente, period_id) ==
    [codigo_agente |-> codigo_agente,
     nombre_agente |-> agent_name,
     periodo_tiempo |-> PeriodoLabel(period_id),
     variable |-> var_data.variable_name,
     meta_asignada |-> var_data.total_meta_asignada,
     meta_distribuida |-> var_data.total_meta_distribuida,
     porcentaje_meta |-> MockPorcentajeMeta(var_data),
     incentivo_asignado |-> var_data.total_incentivo_asignado,
     incentivo_distribuido |-> var_data.total_incentivo_distribuido,
     porcentaje_variables_completadas |-> var_data.porcentaje_variables_completadas,
     porcentaje_ejecucion_incentivo |-> 0]

\* lines 208-222: one mock report row
\* (agent_name and codigo_agente are the same for every row of a tenant: the
\* callers compute them once)
MockReportRow(var_data, agent_name, codigo_agente, period_id) ==
    [codigo_agente |-> codigo_agente,
     nombre_agente |-> agent_name,
     periodo_tiempo |-> PeriodoLabel(period_id),
     variable |-> var_data.variable_name,
     meta_asignada |-> var_data.total_meta_asignada,
     meta_distribuida |-> var_data.total_meta_distribuida,
     porcentaje_meta |-> MockPorcentajeMeta(var_data),
     incentivo_asignado |-> var_data.total_incentivo_asignado,
     incentivo_distribuido |-> var_data.total_incentivo_distribuido,
     porcentaje_variables_completadas |-> var_data.porcentaje_variables_completadas,
     porcentaje_ejecucion_incentivo |-> 0,
     user_id |-> None,
     program_id |-> 1]

\* a variant of _get_mock_data_new_structure that does not look the code up
get_mock_data_unresolved(subdomain, period_id, nin_data) ==
    [raised |-> FALSE,
     rows |-> [k \in 1..Len(mock_variables_data) |->
                  MockReportRow(mock_variables_data[k],
                                get_agent_name_by_subdomain(subdomain), UNKNOWN,
                                period_id)]]

\* _get_mock_data_new_structure: the rows, and whether building them raised
get_mock_data_new_structure(subdomain, period_id, nin_data) ==
    LET agent_name == get_agent_name_by_subdomain(subdomain)
        codigo_agente == get_agent_code_by_name(agent_name, nin_data)
        report_data ==
            [k \in 1..Len(mock_variables_data) |->
                MockReportRow(mock_variables_data[k], agent_name, codigo_agente,
                              period_id)]
    IN  [raised |-> \E k \in 1..Len(report_data) : report_data[k].porcentaje_meta < 0,
         rows |-> report_data]

\* ------------------------------------------------------------- aggregation
EjecucionPresupuestal ==
    <<"E","j","e","c","u","c","i","ó","n"," ","P","r","e","s","u","p","u","e","s","t","a","l">>
EJECUCION_PRESUPUESTAL ==
    <<"E","J","E","C","U","C","I","Ó","N"," ","P","R","E","S","U","P","U","E","S","T","A","L">>

\* a variant of lines 383 and 599 that skips nothing
IsBudgetExecutionNever(variable_name) == FALSE

\* lines 383 and 599: the rows the loop skips
IsBudgetExecution(variable_name) ==
    \/ Contains(variable_name, EjecucionPresupuestal)
    \/ Contains(upper(variable_name), EJECUCION_PRESUPUESTAL)

\* lines 388-399: a fresh entry of variables_data.  total_resultados_* and
\* point_value are accumulated by the code and never read; they are left out.
NewVariable(row) ==
    [variable_name |-> row.variable_name,
     variable_id |-> row.variable_id,
     total_meta_asignada |-> 0,
     total_meta_distribuida |-> 0,
     total_incentivo_asignado |-> 0,
     total_incentivo_distribuido |-> 0,
     user_id |-> row.user_id,
     program_id |-> row.program_id]

\* distributed_incentives.get(variable_id, 0.0)
DistributedIncentive(distributed_incentives, variable_id) ==
    IF variable_id \in DOMAIN distributed_incentives
    THEN distributed_incentives[variable_id]
    ELSE 0

\* lines 377-410: variables_data (a dict, kept in insertion order) after the
\* loop over the query's rows
RECURSIVE GroupByVariable(_, _, _)
GroupByVariable(results, distributed_incentives, variables_data) ==
    IF results = <<>> THEN variables_data
    ELSE LET row == Head(results)
         IN  IF IsBudgetExecution(row.variable_name)
             THEN GroupByVariable(Tail(results), distributed_incentives, variables_data)
             ELSE LET known == \E k \in 1..Len(variables_data) :
                                  variables_data[k].variable_name = row.variable_name
                      vd == IF known THEN variables_data
                            ELSE Append(variables_data, NewVariable(row))
                      k == CHOOSE k \in 1..Len(vd) :
                               vd[k].variable_name = row.variable_name
                      folded ==
                          [vd EXCEPT ![k] =
                              [@ EXCEPT
                                 !.total_meta_asignada = @ + row.meta_asignada_agente,
                                 !.total_meta_distribuida = @ + row.meta_distribuida_vendors,
                                 !.total_incentivo_asignado = @ + row.incentivo_asignado_puntos,
                                 !.total_incentivo_distribuido =
                                     @ + DistributedIncentive(distributed_incentives,
                                                              row.variable_id)]]
                  IN  GroupByVariable(Tail(results), distributed_incentives, folded)

\* a variant of lines 414-416 that counts every variable with a goal assigned
CompletedVariablesWithGoal(variables_data) ==
    Cardinality({k \in 1..Len(variables_data) :
                    variables_data[k].total_meta_asignada > 0})

\* lines 414-416
CompletedVariables(variables_data) ==
    Cardinality({k \in 1..Len(variables_data) :
                    /\ variables_data[k].total_meta_asignada > 0
                    /\ variables_data[k].total_meta_distribuida
                           >= variables_data[k].total_meta_asignada})

\* lines 431-433 and 485
PorcentajeVariablesCompletadas(variables_data) ==
    IF Len(variables_data) > 0
    THEN Percentage(CompletedVariables(variables_data), Len(variables_data))
    ELSE 0

\* a variant of lines 421-423 with the quotient inverted
PorcentajeMetaInverted(var_data) ==
    IF var_data.total_meta_asignada > 0 /\ var_data.total_meta_distribuida > 0
    THEN Percentage(var_data.total_meta_asignada, var_data.total_meta_distribuida)
    ELSE 0

\* lines 421-423
PorcentajeMeta(var_data) ==
    IF var_data.total_meta_asignada > 0
    THEN Percentage(var_data.total_meta_distribuida, var_data.total_meta_asignada)
    ELSE 0

\* a variant of lines 426-428 that reports full execution when incentives
\* were distributed without any being assigned
ExecutedIncentiveAlwaysDivides(var_data) ==
    IF var_data.total_incentivo_asignado > 0
    THEN Percentage(var_data.total_incentivo_distribuido, var_data.total_incentivo_asignado)
    ELSE IF var_data.total_incentivo_distribuido > 0 THEN 10000 ELSE 0

\* lines 426-428
ExecutedIncentive(var_data) ==
    IF var_data.total_incentivo_asignado > 0
    THEN Percentage(var_data.total_incentivo_distribuido, var_data.total_incentivo_asignado)
    ELSE 0

\* lines 436-450
ReportRow(var_data, variables_data, agent_name, codigo_agente, period_info) ==
    [codigo_agente |-> codigo_agente,
     nombre_agente |-> agent_name,
     periodo_tiempo |-> period_info,
     variable |-> var_data.variable_name,
     meta_asignada |-> round2(var_data.total_meta_asignada),
     meta_distribuida |-> round2(var_data.total_meta_distribuida),
     porcentaje_meta |-> PorcentajeMeta(var_data),
     incentivo_asignado |-> round2(var_data.total_incentivo_asignado),
     incentivo_distribuido |-> round2(var_data.total_incentivo_distribuido),
     porcentaje_variables_completadas |-> PorcentajeVariablesCompletadas(variables_data),
     porcentaje_ejecucion_incentivo |-> ExecutedIncentive(var_data),
     user_id |-> var_data.user_id,
     program_id |-> var_data.program_id]

\* lines 455-458: period_totals after the loop over variables_data
PeriodTotals(variables_data) ==
    [total_assigned_incentives |-> SumOf(variables_data, "total_incentivo_asignado"),
     total_given_incentives |-> SumOf(variables_data, "total_incentivo_distribuido"),
     total_meta_asignada |-> SumOf(variables_data, "total_meta_asignada"),
     total_meta_distribuida |-> SumOf(variables_data, "total_meta_distribuida")]

\* lines 461-464
TotalExecutedIncentive(period_totals) ==
    IF period_totals.total_assigned_incentives > 0
    THEN Percentage(period_totals.total_given_incentives,
                    period_totals.total_assigned_incentives)
    ELSE 0

\* lines 467-471: guarded by the distributed goal, divides by the assigned one
TotalPorcentajeMeta(period_totals) ==
    IF period_totals.total_meta_distribuida > 0
    THEN Percentage(period_totals.total_meta_distribuida,
                    period_totals.total_meta_asignada)
    ELSE 0

\* lines 475-489
TotalRow(variables_data, agent_name, codigo_agente, period_info) ==
    LET period_totals == PeriodTotals(variables_data)
    IN  [codigo_agente |-> codigo_agente,
         nombre_agente |-> agent_name,
         periodo_tiempo |-> period_info,
         variable |-> TOTAL,
         meta_asignada |-> round2(period_totals.total_meta_asignada),
         meta_distribuida |-> round2(period_totals.total_meta_distribuida),
         porcentaje_meta |-> TotalPorcentajeMeta(period_totals),
         incentivo_asignado |-> round2(period_totals.total_assigned_incentives),
         incentivo_distribuido |-> round2(period_totals.total_given_incentives),
         porcentaje_variables_completadas |-> PorcentajeVariablesCompletadas(variables_data),
         porcentaje_ejecucion_incentivo |-> TotalExecutedIncentive(period_totals),
         user_id |-> None,
         program_id |-> 1]

\* a variant of lines 359-492 in which line 473's append of the TOTAL row
\* is left out
BuildReportDataWithoutTotal(results, distributed_incentives, subdomain, period_info, nin_data) ==
    LET agent_name == get_agent_name_by_subdomain(subdomain)
        codigo_agente == get_agent_code_by_name(agent_name, nin_data)
        variables_data == GroupByVariable(results, distributed_incentives, <<>>)
    IN  [raised |-> FALSE,
         rows |-> [k \in 1..Len(variables_data) |->
                      ReportRow(variables_data[k], variables_data, agent_name,
                                codigo_agente, period_info)]]

\* lines 359-492 (and their copy, 576-707): the rows built from a non-empty
\* query result, and whether a division by zero raised on the way
BuildReportData(results, distributed_incentives, subdomain, period_info, nin_data) ==
    LET agent_name == get_agent_name_by_subdomain(subdomain)
        codigo_agente == get_agent_code_by_name(agent_name, nin_data)
        variables_data == GroupByVariable(results, distributed_incentives, <<>>)
        report_data ==
            [k \in 1..Len(variables_data) |->
                ReportRow(variables_data[k], variables_data, agent_name,
                          codigo_agente, period_info)]
        total_row == TotalRow(variables_data, agent_name, codigo_agente, period_info)
    IN  [raised |-> \/ \E k \in 1..Len(report_data) :
                          \/ report_data[k].porcentaje_meta < 0
                          \/ report_data[k].porcentaje_ejecucion_incentivo < 0
                    \/ total_row.porcentaje_meta < 0
                    \/ total_row.porcentaje_ejecucion_incentivo < 0,
         rows |-> IF report_data # <<>> THEN Append(report_data, total_row)
                  ELSE report_data]

\* ------------------------------------------------------------ period label
month_names ==
    <<"Enero", "Febrero", "Marzo", "Abril", "Mayo", "Junio", "Julio", "Agosto",
      "Septiembre", "Octubre", "Noviembre", "Diciembre">>

\* _format_period of a date (lines 739-747)
FormatDate(period_start) ==
    << (IF period_start.month \in 1..Len(month_names)
        THEN month_names[period_start.month] ELSE ""),
       ToString(period_start.year) >>

\* values _format_period can be handed: None, an int, a str (of which only
\* the length matters), or an object with month and year attributes
PyNone == [type |-> "NoneType", value |-> 0, month |-> 0, year |-> 0]
PyInt(n) == [type |-> "int", value |-> n, month |-> 0, year |-> 0]
PyStr(length) == [type |-> "str", value |-> length, month |-> 0, year |-> 0]
PyDate(year, month) == [type |-> "date", value |-> 0, month |-> month, year |-> year]

\* `not period_start` (line 731): None, 0 and the empty string are falsy, a
\* date never is
IsFalsy(period_start) ==
    \/ period_start.type = "NoneType"
    \/ period_start.type \in {"int", "str"} /\ period_start.value = 0

PeriodoDesconocido == <<"Periodo", "Desconocido">>

\* lines 729-750: _format_period
format_period(period_start) ==
    IF IsFalsy(period_start) THEN PeriodoDesconocido
    ELSE IF period_start.type = "int" THEN PeriodoLabel(period_start.value)
    ELSE IF period_start.type = "date" THEN FormatDate(period_start)
    ELSE PeriodoDesconocido

\* _get_period_info: the label for the row fetched from periods (lines 828-834)
PeriodInfoLabel(result, period_id) ==
    IF result # <<>> THEN FormatDate(result[1]) ELSE PeriodoLabel(period_id)

\* --------------------------------------------------------------- exceptions
CancelledError == "CancelledError"
ZeroDivisionError == "ZeroDivisionError"
\* what the driver raises on a failed connection, cursor or query
DbErrors == {"OperationalError"}

\* `except Exception` narrowed to a class the driver's errors are not in
ExceptValueErrorOnly(e) == e = "ValueError"

\* a handler that catches cancellations too (`except BaseException`)
ExceptBaseException(e) == TRUE

\* `except Exception as e` (lines 84, 112, 139, 276, 494, 709, 832): every
\* error but a cancellation, which derives from BaseException
ExceptException(e) == e # CancelledError

\* --------------------------------------------------------- sampled inputs
\* Number of tenants in the registry of the engine's specification.
NumTenants == 2
\* Longest result of an aggregation query in the tenant specification.
MaxRows == 2

SampleSubdomains ==
    << <<"m","a","x","g","o","l">>, <<"j","y","d">>,
       <<"1","0","8","9","7","2","3">>, <<"c","o","m","e","r","c","r","u","z">> >>

SampleNinData ==
    << [ac |-> <<"M","A","X","G","O","L"," ","D","I","S","T","R","I","B","U","C","I","O","N","E","S">>,
        nin |-> "N1"],
       [ac |-> <<"A","G","E","N","C","I","A"," ","C","O","M","E","R","C","I","A","L"," ","N","U","T","R","I","C","O","L"," ","S","A","S">>,
        nin |-> "N2"] >>

Pideky == <<"P","i","d","e","k","y">>
Efectividad == <<"E","f","e","c","t","i","v","i","d","a","d">>
GestionDeActivos ==
    <<"G","e","s","t","i","ó","n"," ","d","e"," ","A","c","t","i","v","o","s">>

\* rows of the variables table: v.id, v.name_to_display
SampleVariables ==
    { [id |-> 1, name |-> EjecucionPresupuestal],
      [id |-> 3, name |-> Pideky],
      [id |-> 4, name |-> Efectividad] }

\* One row of the aggregation query (lines 292-303).  l.goal > 0 (line 339);
\* user_id and program_id are the literals 2 and 1 of the SELECT list.
QueryRows ==
    { [variable_name |-> v.name, variable_id |-> v.id,
       meta_asignada_agente |-> g, meta_distribuida_vendors |-> d,
       incentivo_asignado_puntos |-> i, user_id |-> 2, program_id |-> 1] :
        v \in SampleVariables, g \in {1000}, d \in {0, 500, 1333},
        i \in {0, 200000} }

\* a variant of the CASE of lines 340-348 without the named variables
OrderRankAlphabetical(variable_name) == 5

\* the CASE of the ORDER BY clause (lines 340-348)
OrderRank(variable_name) ==
    IF variable_name = EjecucionPresupuestal THEN 1
    ELSE IF variable_name = Pideky THEN 2
    ELSE IF variable_name = GestionDeActivos THEN 3
    ELSE IF variable_name = Efectividad THEN 4
    ELSE 5

\* the place of a character in the alphabetical order of the database
\* (letters without regard to case; any other character first)
CharRank(c) ==
    IF \E i \in 1..Len(UpperCase) : UpperCase[i] = UpperChar(c)
    THEN CHOOSE i \in 1..Len(UpperCase) : UpperCase[i] = UpperChar(c)
    ELSE 0

\* a sorts strictly before b alphabetically (line 349: v.name_to_display)
RECURSIVE NameBefore(_, _)
NameBefore(a, b) ==
    IF b = <<>> THEN FALSE
    ELSE IF a = <<>> THEN TRUE
    ELSE IF CharRank(a[1]) # CharRank(b[1]) THEN CharRank(a[1]) < CharRank(b[1])
    ELSE NameBefore(Tail(a), Tail(b))

\* A result the database can answer with: in ORDER BY order, and with one
\* vendor aggregate per variable id (the joined subqueries group by it).
IsQueryResult(res) ==
    /\ \A a, b \in 1..Len(res) :
          a < b => OrderRank(res[a].variable_name) <= OrderRank(res[b].variable_name)
    /\ \A a, b \in 1..Len(res) :
          (a < b /\ OrderRank(res[a].variable_name) = OrderRank(res[b].variable_name))
              => ~NameBefore(res[b].variable_name, res[a].variable_name)
    /\ \A a, b \in 1..Len(res) :
          res[a].variable_id = res[b].variable_id =>
              res[a].meta_distribuida_vendors = res[b].meta_distribuida_vendors

RECURSIVE SeqsUpTo(_, _)
SeqsUpTo(S, n) ==
    IF n = 0 THEN {<<>>}
    ELSE SeqsUpTo(S, n - 1) \cup
         {Append(s, x) : s \in {t \in SeqsUpTo(S, n - 1) : Len(t) = n - 1}, x \in S}

AllResults == {res \in SeqsUpTo(QueryRows, MaxRows) : IsQueryResult(res)}

QueryRow(name, id, goal, vendors, points) ==
    [variable_name |-> name, variable_id |-> id, meta_asignada_agente |-> goal,
     meta_distribuida_vendors |-> vendors, incentivo_asignado_puntos |-> points,
     user_id |-> 2, program_id |-> 1]

\* the few results the engine's specification draws from
EngineResults ==
    { <<>>,
      <<QueryRow(EjecucionPresupuestal, 1, 1000, 0, 0)>>,
      <<QueryRow(Pideky, 3, 1000, 1333, 200000),
        QueryRow(Efectividad, 4, 1000, 1333, 0)>> }

\* Longest result of an aggregation query in the ordering specification.
MaxOrderRows == 3

Cobertura == <<"C","o","b","e","r","t","u","r","a">>
Volumen == <<"V","o","l","u","m","e","n">>

\* rows of the variables table with and without a place in the CASE
OrderVariables ==
    { [id |-> 3, name |-> Pideky],
      [id |-> 5, name |-> GestionDeActivos],
      [id |-> 4, name |-> Efectividad],
      [id |-> 7, name |-> Volumen],
      [id |-> 8, name |-> Cobertura] }

\* results the ordering specification draws from: any variables, one value
OrderedResults ==
    {res \in SeqsUpTo({QueryRow(v.name, v.id, 1000, 500, 200000) : v \in OrderVariables},
                      MaxOrderRows) : IsQueryResult(res)}

\* results of the distributed-incentive query: variable_id -> total
AllIncentives ==
    { <<>>, (3 :> 50000), (3 :> 50000 @@ 4 :> 50000), (1 :> 50000 @@ 3 :> 50000) }
EngineIncentives == { <<>>, (4 :> 50000) }

\* the row fetched for the requested period from periods: none, or its
\* start_date
StartDates == { <<>>, <<[year |-> 2025, month |-> 8]>> }

RequiredTables ==
    {"users", "people", "liquidations", "roles", "programs_users", "programs",
     "variables", "periods"}

\* ---- inputs of the resolver's specification
w_JYD == <<"J","Y","D">>
w_MAXGOL == <<"M","A","X","G","O","L">>
w_SAS == <<"S","A","S">>
Vocabulary == {w_JYD, w_MAXGOL, w_SAS}

RECURSIVE WordSeqs(_)
WordSeqs(n) ==
    IF n = 0 THEN {<<>>}
    ELSE WordSeqs(n - 1) \cup
         {Append(ws, w) : ws \in {x \in WordSeqs(n - 1) : Len(x) = n - 1},
                          w \in Vocabulary}

\* names as stored in nin.json: upper case, single blanks
StoredNames == {JoinWords(ws, 1) : ws \in WordSeqs(MaxWords) \ {<<>>}}

\* a name written with mixed case, runs of blanks and another spelling of the
\* company suffix than the identity table's
ComercialNutricol ==
    <<"C","o","m","e","r","c","i","a","l"," "," ","N","u","t","r","i","c","o","l",
      " "," "," ","S",".","A",".","S">>

\* names as asked for: any case, blanks of one or two, maybe padded
AskedNames ==
    {<<>>, ComercialNutricol} \cup StoredNames
    \cup {lower(n) : n \in StoredNames}
    \cup {JoinWords(ws, 2) : ws \in WordSeqs(MaxWords)}
    \cup {<<" ">> \o n \o <<" ">> : n \in StoredNames}

NinCodes == <<"N1", "N2">>

\* identity tables of up to two records; record i carries code NinCodes[i]
NinTables ==
    {<<>>, SampleNinData}
    \cup {<<[ac |-> a, nin |-> NinCodes[1]]>> : a \in StoredNames}
    \cup {<<[ac |-> a, nin |-> NinCodes[1]], [ac |-> b, nin |-> NinCodes[2]]>> :
              a \in StoredNames, b \in StoredNames}

\* ------------------------------------------------------------------- state
VARIABLES
    registry,               \* db_manager.subdomains: the tenant keys, in order
    nin_data,               \* ReportService.nin_data
    period_id,              \* the period asked for
    database,               \* which sampled contents the tenants' databases hold
    idx,                    \* generate_report: position of the for loop
    pc,                     \* where the running coroutine is suspended
    query_path,             \* "primary" (_get_real_data_optimized) or "simplified"
    connections,            \* tenants whose connection is open
    open_cursors,           \* cursors opened and not closed
    distributed_incentives, \* local of the aggregation in progress
    results,                \* local of the aggregation in progress
    all_data,               \* generate_report: all_data
    processed_subdomains,   \* generate_report: processed_subdomains
    report,                 \* what generate_report returned
    outcome,                \* what the caller of generate_report got
    zero_division,          \* a division by zero was performed
    history,                \* per finished tenant: how its pipeline ended, and
                            \* the query results its rows were built from
    r_name,                 \* _get_agent_code_by_name: agent_name
    r_code,                 \* _get_agent_code_by_name: the code returned
    parked,                 \* the locals of a second generate_report that is
                            \* suspended while this one runs: <<>> or <<locals>>
    steps,                  \* what the pipeline in progress did so far: a
                            \* sequence of <<step, query path, what happened>>
    existing_tables,        \* _check_tables_exist: the tables the catalogue reports
    probe_answer,           \* _check_tables_exist: <<>>, or <<how the call ended>>
    start_date,             \* _format_period: its argument period_start
    period_label            \* _format_period: <<>>, or <<the string returned>>

config == <<registry, nin_data, period_id, database, parked>>

\* results the aggregation queries (lines 286-350, 504-565) may answer with
db_results ==
    IF database = "any" THEN AllResults
    ELSE IF database = "ordered" THEN OrderedResults
    ELSE EngineResults

\* results the distributed-incentive query (lines 235-260) may give
db_incentives == IF database = "any" THEN AllIncentives ELSE EngineIncentives

locals == <<query_path, distributed_incentives, results>>
rvars == <<r_name, r_code>>
pvars == <<existing_tables, probe_answer, start_date, period_label>>
vars == <<registry, nin_data, period_id, database, idx, pc,
          query_path, connections, open_cursors, distributed_incentives,
          results, all_data, processed_subdomains, report, outcome,
          zero_division, history, r_name, r_code, parked, steps,
          existing_tables, probe_answer, start_date, period_label>>

\* the pure functions' variables while another specification runs
Unused ==
    /\ existing_tables = {}
    /\ probe_answer = <<>>
    /\ start_date = PyNone
    /\ period_label = <<>>

\* The running step is logged with what happened in it.  The log is the one
\* of the pipeline in progress or, between two pipelines, of the last one; the
\* first step of a pipeline starts it afresh.
Step(what) ==
    steps' = Append(IF pc = "connect" THEN <<>> ELSE steps, <<pc, query_path, what>>)

\* the awaits of _check_tables_exist that can raise: connection.cursor()
\* (line 119), the catalogue query (122-127), the count query (132-133)
ProbeFailures == {"probe_cursor", "probe_tables", "probe_count"}

\* the step a pipeline failed in, for the step's log entry
FailedStep(what) == IF what \in ProbeFailures THEN "probe" ELSE what

subdomain == registry[idx]

AwaitPoints == {"connect", "probe", "cursor", "incentives", "query", "period_info"}

\* state of generate_report before its loop starts (lines 66-74)
EngineStart ==
    /\ idx = 1
    /\ pc = IF registry = <<>> THEN "return" ELSE "connect"
    /\ query_path = "primary"
    /\ connections = {}
    /\ open_cursors = {}
    /\ distributed_incentives = <<>>
    /\ results = <<>>
    /\ all_data = <<>>
    /\ processed_subdomains = <<>>
    /\ report = None
    /\ outcome = "running"
    /\ zero_division = FALSE
    /\ history = <<>>
    /\ r_name = <<>>
    /\ r_code = "unused"
    /\ parked = <<>>
    /\ steps = <<>>
    /\ Unused

\* a report over NumTenants tenants
Init ==
    /\ registry = SubSeq(SampleSubdomains, 1, NumTenants)
    /\ nin_data = SampleNinData
    /\ period_id = 8
    /\ database = "few"
    /\ EngineStart

\* a report over one tenant whose database may hold any sampled result
InitTenant ==
    /\ registry \in {<<SampleSubdomains[1]>>, <<SampleSubdomains[2]>>}
    /\ nin_data = SampleNinData
    /\ period_id = 8
    /\ database = "any"
    /\ EngineStart

\* the status the route answers with (routes/reports.py lines 41-52): the
\* report, 408 for wait_for's TimeoutError, 500 for any other exception
status_code ==
    CASE outcome = "returned" -> 200
      [] outcome = "timeout" -> 408
      [] outcome = "raised" -> 500
      [] OTHER -> 0

\* a report over one tenant whose database holds variables of every rank of
\* the ORDER BY clause
InitOrder ==
    /\ registry = <<SampleSubdomains[1]>>
    /\ nin_data = SampleNinData
    /\ period_id = 8
    /\ database = "ordered"
    /\ EngineStart

\* ---- how a tenant's pipeline ends
NextTenant ==
    /\ idx' = idx + 1
    /\ pc' = IF idx = Len(registry) THEN "return" ELSE "connect"
    /\ query_path' = "primary"
    /\ distributed_incentives' = <<>>
    /\ results' = <<>>
    /\ UNCHANGED <<report, outcome>>

\* a variant of lines 80-82 that records the tenant at the front of the list
ReturnsOutOfOrder(rows, path, failure, cursors, zd) ==
    /\ all_data' = all_data \o rows
    /\ processed_subdomains' = <<subdomain>> \o processed_subdomains
    /\ history' = Append(history, [subdomain |-> subdomain, returned |-> TRUE,
                                   path |-> path, failure |-> FailedStep(failure),
                                   results |-> results,
                                   incentives |-> distributed_incentives,
                                   rows |-> rows])
    /\ Step(failure)
    /\ open_cursors' = cursors
    /\ zero_division' = (zero_division \/ zd)
    /\ NextTenant

\* lines 80-82: _get_subdomain_data returned rows
Returns(rows, path, failure, cursors, zd) ==
    /\ all_data' = all_data \o rows
    /\ processed_subdomains' = Append(processed_subdomains, subdomain)
    /\ history' = Append(history, [subdomain |-> subdomain, returned |-> TRUE,
                                   path |-> path, failure |-> FailedStep(failure),
                                   results |-> results,
                                   incentives |-> distributed_incentives,
                                   rows |-> rows])
    /\ Step(failure)
    /\ open_cursors' = cursors
    /\ zero_division' = (zero_division \/ zd)
    /\ NextTenant

\* lines 84-86: generate_report's handler logs and continues
Skips(failure, cursors, zd) ==
    /\ history' = Append(history, [subdomain |-> subdomain, returned |-> FALSE,
                                   path |-> "none", failure |-> FailedStep(failure),
                                   results |-> results,
                                   incentives |-> distributed_incentives,
                                   rows |-> <<>>])
    /\ Step(failure)
    /\ open_cursors' = cursors
    /\ zero_division' = (zero_division \/ zd)
    /\ NextTenant
    /\ UNCHANGED <<all_data, processed_subdomains>>

\* the exception leaves generate_report: the route answers 408 for a
\* cancellation by wait_for's timeout and 500 for anything else
\* (routes/reports.py lines 47-52)
Aborts(e, cursors, zd) ==
    /\ pc' = "done"
    /\ outcome' = IF e = CancelledError THEN "timeout" ELSE "raised"
    /\ open_cursors' = cursors
    /\ zero_division' = (zero_division \/ zd)
    /\ Step(IF e = CancelledError THEN "cancelled" ELSE "raised")
    /\ UNCHANGED <<idx, locals, all_data, processed_subdomains, report, history>>

\* an exception leaves _get_subdomain_data
Propagates(e, failure, cursors, zd) ==
    IF ExceptException(e) THEN Skips(failure, cursors, zd)
    ELSE Aborts(e, cursors, zd)

\* return self._get_mock_data_new_structure(subdomain, period_id)
\* (lines 107, 114, 496, 574, 711)
MockFallback(failure, cursors, zd) ==
    LET mock == get_mock_data_new_structure(subdomain, period_id, nin_data)
    IN  IF mock.raised
        THEN Propagates(ZeroDivisionError, failure, cursors, TRUE)
        ELSE Returns(mock.rows, "mock", failure, cursors, zd)

\* a variant of the handlers at lines 112, 494, 709 that lets the exception go
RaisesWithoutFallback(e, failure, cursors, zd) == Propagates(e, failure, cursors, zd)

\* an exception is raised inside the try blocks of the pipeline
\* (handlers at lines 112, 494, 709: each returns the mock data)
Raises(e, failure, cursors, zd) ==
    IF ExceptException(e) THEN MockFallback(failure, cursors, zd)
    ELSE Propagates(e, failure, cursors, zd)

\* ---- the steps of a tenant's pipeline
\* line 102: connection = await db_manager.get_connection(subdomain)
Connect ==
    /\ pc = "connect"
    /\ \/ /\ connections' = connections \cup {subdomain}
          /\ pc' = "probe"
          /\ Step("ok")
          /\ UNCHANGED <<idx, locals, open_cursors, all_data, processed_subdomains,
                         report, outcome, zero_division, history>>
       \/ /\ \E e \in DbErrors : Raises(e, "connect", open_cursors, FALSE)
          /\ UNCHANGED connections
    /\ UNCHANGED <<config, rvars, pvars>>

\* a variant of lines 136-137 that requires more than 6 tables
CheckTablesExistMoreThanSix(table_names) == Cardinality(table_names) > 6

\* lines 136-137: tables_found >= 6
CheckTablesExist(table_names) == Cardinality(table_names) >= 6

\* lines 121-127: the table lists the catalogue query can return
FoundTables == SUBSET RequiredTables

\* lines 136-137 over every table list: the answers of the probe
TablesExistAnswers == { CheckTablesExist(table_names) : table_names \in FoundTables }

\* line 131 over every table list: whether the count query is executed
CountQueryRuns == { ("liquidations" \in table_names) : table_names \in FoundTables }

\* a variant of the handler that takes a failed probe for a schema in place
CheckTablesExistOnErrorTrue == TRUE

\* lines 139-141: except Exception: ... return False
CheckTablesExistOnError == FALSE

\* lines 105-110: what _get_subdomain_data does with the probe's answer
AfterProbe(answer, what, cursors) ==
    IF answer
    THEN /\ pc' = "cursor"
         /\ open_cursors' = cursors
         /\ Step(what)
         /\ UNCHANGED <<idx, locals, all_data, processed_subdomains, report,
                        outcome, zero_division, history>>
    ELSE MockFallback(what, cursors, FALSE)

\* lines 116-141: _check_tables_exist, and lines 105-107
Probe ==
    /\ pc = "probe"
    /\ \/ \* connection.cursor() raises: caught, False
          AfterProbe(CheckTablesExistOnError, "probe_cursor", open_cursors)
       \/ \* the table query raises with the cursor open: caught, False
          AfterProbe(CheckTablesExistOnError, "probe_tables",
                     open_cursors \cup {"probe"})
       \/ \* the count query on liquidations raises: caught, False
          /\ TRUE \in CountQueryRuns
          /\ AfterProbe(CheckTablesExistOnError, "probe_count",
                        open_cursors \cup {"probe"})
       \/ \E answer \in TablesExistAnswers :
              AfterProbe(answer, IF answer THEN "ok" ELSE "schema", open_cursors)
    /\ UNCHANGED <<config, connections, rvars, pvars>>

\* the cursor of the aggregation in progress
PathCursor == IF query_path = "primary" THEN "real" ELSE "simplified"

\* cursors left open once the finally clauses of the aggregation ran
\* (lines 497-498, 712-713)
AfterFinally(cursors) == cursors \ {"real", "simplified"}

\* lines 284 and 502: cursor = await connection.cursor(), before the try
OpenCursor ==
    /\ pc = "cursor"
    /\ \/ /\ open_cursors' = open_cursors \cup {PathCursor}
          /\ pc' = "incentives"
          /\ Step("ok")
          /\ UNCHANGED <<idx, locals, all_data, processed_subdomains, report,
                         outcome, zero_division, history>>
       \/ \E e \in DbErrors : Raises(e, "cursor", AfterFinally(open_cursors), FALSE)
    /\ UNCHANGED <<config, connections, rvars, pvars>>

\* a variant of the handler that returns the mapping as far as it was built
IncentivesOnErrorPartial == (3 :> 50000)

\* lines 276-278: except Exception: ... return {}
IncentivesOnError == <<>>

\* lines 227-280: _get_distributed_incentives
Incentives ==
    /\ pc = "incentives"
    /\ \/ \* line 233 raises, outside the function's try
          \E e \in DbErrors :
              Raises(e, "incentives", AfterFinally(open_cursors), FALSE)
       \/ \* the query raises: logged, {} returned (lines 276-278)
          /\ distributed_incentives' = IncentivesOnError
          /\ pc' = "query"
          /\ Step("error")
          /\ UNCHANGED <<idx, query_path, results, open_cursors, all_data,
                         processed_subdomains, report, outcome, zero_division,
                         history>>
       \/ \E m \in db_incentives :
              /\ distributed_incentives' = m
              /\ pc' = "query"
              /\ Step("ok")
              /\ UNCHANGED <<idx, query_path, results, open_cursors, all_data,
                             processed_subdomains, report, outcome,
                             zero_division, history>>
    /\ UNCHANGED <<config, connections, rvars, pvars>>

\* a variant of the test that takes every result for an empty one
NotResultsAlways(res) == TRUE

\* lines 356 and 573: `if not results`
NotResults(res) == res = <<>>

\* what the log says of the result of a query
Fetched(res) == IF res = <<>> THEN "empty" ELSE "rows"

\* a variant of the handlers that returns report_data as far as it was built
QueryRaisesKeepingRows(e, cursors) == Returns(<<>>, query_path, "query", cursors, FALSE)

\* lines 494-496 and 709-711: cursor.execute or fetchall raised
QueryRaises(e, cursors) == Raises(e, "query", cursors, FALSE)

\* lines 352-357 and 570-574: the aggregation query
Query ==
    /\ pc = "query"
    /\ \/ \E e \in DbErrors : QueryRaises(e, AfterFinally(open_cursors))
       \/ \E res \in db_results :
              IF ~NotResults(res)
              THEN /\ results' = res
                   /\ pc' = "period_info"
                   /\ Step(Fetched(res))
                   /\ UNCHANGED <<idx, query_path, distributed_incentives,
                                  open_cursors, all_data, processed_subdomains,
                                  report, outcome, zero_division, history>>
              ELSE IF query_path = "primary"
              THEN \* return await self._get_simplified_data(...)
                   /\ query_path' = "simplified"
                   /\ pc' = "cursor"
                   /\ Step(Fetched(res))
                   /\ UNCHANGED <<idx, distributed_incentives, results,
                                  open_cursors, all_data, processed_subdomains,
                                  report, outcome, zero_division, history>>
              ELSE MockFallback(Fetched(res), AfterFinally(open_cursors), FALSE)
    /\ UNCHANGED <<config, connections, rvars, pvars>>

\* lines 372-492 and 588-707: the period label, then the rows
BuildAndReturn(period_info, cursors) ==
    LET built == BuildReportData(results, distributed_incentives, subdomain,
                                 period_info, nin_data)
    IN  IF built.raised
        THEN Raises(ZeroDivisionError, "division", AfterFinally(cursors), TRUE)
        ELSE Returns(built.rows, query_path, "none", AfterFinally(cursors), FALSE)

PeriodInfo ==
    /\ pc = "period_info"
    /\ \/ \* connection.cursor() raises: caught (line 832)
          BuildAndReturn(PeriodoLabel(period_id), open_cursors)
       \/ \* the query raises with the cursor open: caught (line 832)
          BuildAndReturn(PeriodoLabel(period_id), open_cursors \cup {"period"})
       \/ \E result \in StartDates :
              BuildAndReturn(PeriodInfoLabel(result, period_id), open_cursors)
    /\ UNCHANGED <<config, connections, rvars, pvars>>

\* asyncio.wait_for's timeout (routes/reports.py line 24-27) cancels the
\* coroutine where it is suspended
Cancel ==
    /\ pc \in AwaitPoints
    /\ \E leaked \in SUBSET {"probe", "period"} :
          /\ ("probe" \in leaked) => pc = "probe"
          /\ ("period" \in leaked) => pc = "period_info"
          /\ Raises(CancelledError, "cancelled",
                    AfterFinally(open_cursors) \cup leaked, FALSE)
    /\ UNCHANGED <<config, connections, rvars, pvars>>

\* a variant of lines 90-95 that counts tenants instead of rows
ReportCountingTenants(data, subdomains_processed) ==
    [data |-> data,
     total_records |-> Len(subdomains_processed),
     subdomains_processed |-> subdomains_processed]

\* lines 90-95: the dictionary returned (generated_at, a clock reading, is
\* left out)
Report(data, subdomains_processed) ==
    [data |-> data,
     total_records |-> Len(data),
     subdomains_processed |-> subdomains_processed]

\* lines 88-95
ReturnReport ==
    /\ pc = "return"
    /\ report' = Report(all_data, processed_subdomains)
    /\ outcome' = "returned"
    /\ pc' = "done"
    /\ UNCHANGED <<config, idx, locals, connections, open_cursors, all_data,
                   processed_subdomains, zero_division, history, steps, rvars,
                   pvars>>

Next ==
    \/ Connect
    \/ Probe
    \/ OpenCursor
    \/ Incentives
    \/ Query
    \/ PeriodInfo
    \/ Cancel
    \/ ReturnReport

Spec == Init /\ [][Next]_vars
SpecTenant == InitTenant /\ [][Next]_vars
SpecOrder == InitOrder /\ [][Next]_vars

\* ---- two report generations on one event loop
\* what a generate_report coroutine owns: its argument and its locals (lines
\* 62-76), with the locals of the pipeline it is in and what its caller got
Context ==
    [period_id |-> period_id, idx |-> idx, pc |-> pc, query_path |-> query_path,
     connections |-> connections, open_cursors |-> open_cursors,
     distributed_incentives |-> distributed_incentives, results |-> results,
     all_data |-> all_data, processed_subdomains |-> processed_subdomains,
     report |-> report, outcome |-> outcome, zero_division |-> zero_division,
     history |-> history, steps |-> steps]

\* a variant in which the rows list belongs to an object both generations use
ResumedSharingRows(ctx, suspended) == [ctx EXCEPT !.all_data = suspended.all_data]

\* what a coroutine finds when it is resumed: its own frame, whatever the
\* coroutine that ran meanwhile did
Resumed(ctx, suspended) == ctx

\* the event loop suspends the running generation at an await (or leaves it
\* finished) and resumes the other one
Switch ==
    /\ parked # <<>>
    /\ pc \in AwaitPoints \cup {"done"}
    /\ parked[1].pc # "done"
    /\ LET resumed == Resumed(parked[1], Context)
       IN  /\ period_id' = resumed.period_id
           /\ idx' = resumed.idx
           /\ pc' = resumed.pc
           /\ query_path' = resumed.query_path
           /\ connections' = resumed.connections
           /\ open_cursors' = resumed.open_cursors
           /\ distributed_incentives' = resumed.distributed_incentives
           /\ results' = resumed.results
           /\ all_data' = resumed.all_data
           /\ processed_subdomains' = resumed.processed_subdomains
           /\ report' = resumed.report
           /\ outcome' = resumed.outcome
           /\ zero_division' = resumed.zero_division
           /\ history' = resumed.history
           /\ steps' = resumed.steps
    /\ parked' = <<Context>>
    /\ UNCHANGED <<registry, nin_data, database, rvars, pvars>>

\* two requests, for periods 8 and 9, over a registry of one tenant
InitPair ==
    /\ registry = <<SampleSubdomains[1]>>
    /\ nin_data = SampleNinData
    /\ period_id = 8
    /\ database = "few"
    /\ idx = 1
    /\ pc = "connect"
    /\ query_path = "primary"
    /\ connections = {}
    /\ open_cursors = {}
    /\ distributed_incentives = <<>>
    /\ results = <<>>
    /\ all_data = <<>>
    /\ processed_subdomains = <<>>
    /\ report = None
    /\ outcome = "running"
    /\ zero_division = FALSE
    /\ history = <<>>
    /\ r_name = <<>>
    /\ r_code = "unused"
    /\ steps = <<>>
    /\ Unused
    /\ parked = <<[period_id |-> 9, idx |-> 1, pc |-> "connect",
                   query_path |-> "primary", connections |-> {},
                   open_cursors |-> {}, distributed_incentives |-> <<>>,
                   results |-> <<>>, all_data |-> <<>>,
                   processed_subdomains |-> <<>>, report |-> None,
                   outcome |-> "running", zero_division |-> FALSE,
                   history |-> <<>>, steps |-> <<>>]>>

NextPair ==
    \/ Next
    \/ Switch

SpecPair == InitPair /\ [][NextPair]_vars

\* ---- the identity resolver alone
ResolverInit ==
    /\ r_name \in AskedNames
    /\ nin_data \in NinTables
    /\ r_code = "pending"
    /\ registry = <<>>
    /\ period_id = 8
    /\ database = "none"
    /\ idx = 1
    /\ pc = "done"
    /\ query_path = "primary"
    /\ connections = {}
    /\ open_cursors = {}
    /\ distributed_incentives = <<>>
    /\ results = <<>>
    /\ all_data = <<>>
    /\ processed_subdomains = <<>>
    /\ report = None
    /\ outcome = "running"
    /\ zero_division = FALSE
    /\ history = <<>>
    /\ parked = <<>>
    /\ steps = <<>>
    /\ Unused

Resolve ==
    /\ r_code = "pending"
    /\ r_code' = get_agent_code_by_name(r_name, nin_data)
    /\ UNCHANGED <<config, idx, pc, locals, connections, open_cursors, all_data,
                   processed_subdomains, report, outcome, zero_division, history,
                   r_name, steps, pvars>>

SpecResolver == ResolverInit /\ [][Resolve]_vars

\* ---- the schema probe alone
\* lines 116-141: _check_tables_exist on a schema holding table_names, when
\* the await named by failure ("none": no await) raises e
check_tables_exist(table_names, failure, e) ==
    IF failure \in ProbeFailures
    THEN IF ExceptException(e)
         THEN [raised |-> FALSE, value |-> CheckTablesExistOnError]
         ELSE [raised |-> TRUE, value |-> FALSE]
    ELSE [raised |-> FALSE, value |-> CheckTablesExist(table_names)]

\* the engine's variables while a pure function is exercised alone
EngineIdle ==
    /\ registry = <<>>
    /\ nin_data = <<>>
    /\ period_id = 8
    /\ database = "none"
    /\ idx = 1
    /\ pc = "done"
    /\ query_path = "primary"
    /\ connections = {}
    /\ open_cursors = {}
    /\ distributed_incentives = <<>>
    /\ results = <<>>
    /\ all_data = <<>>
    /\ processed_subdomains = <<>>
    /\ report = None
    /\ outcome = "running"
    /\ zero_division = FALSE
    /\ history = <<>>
    /\ parked = <<>>
    /\ steps = <<>>
    /\ r_name = <<>>
    /\ r_code = "unused"

evars == <<config, idx, pc, locals, connections, open_cursors, all_data,
           processed_subdomains, report, outcome, zero_division, history, steps,
           rvars>>

\* a tenant schema holding any of the required tables
ProbeInit ==
    /\ existing_tables \in FoundTables
    /\ probe_answer = <<>>
    /\ start_date = PyNone
    /\ period_label = <<>>
    /\ EngineIdle

\* one call of _check_tables_exist(connection)
CheckTables ==
    /\ probe_answer = <<>>
    /\ \E failure \in {"none"} \cup ProbeFailures, e \in DbErrors :
          \* line 131: the count query runs when the table is listed
          /\ failure = "probe_count" => "liquidations" \in existing_tables
          /\ probe_answer' =
                 <<[failure |-> failure,
                    answer |-> check_tables_exist(existing_tables, failure, e)]>>
    /\ UNCHANGED <<evars, existing_tables, start_date, period_label>>

SpecProbe == ProbeInit /\ [][CheckTables]_vars

\* ---- the period formatter alone
\* Largest period id handed to _format_period.
MaxPeriodId == 20

\* the values the formatter is tried on
FormatInputs ==
    {PyNone}
    \cup {PyInt(n) : n \in (0 - 2)..MaxPeriodId}
    \cup {PyStr(length) : length \in 0..2}
    \cup {PyDate(year, month) : year \in 2024..2026, month \in 1..12}

FormatInit ==
    /\ start_date \in FormatInputs
    /\ period_label = <<>>
    /\ existing_tables = {}
    /\ probe_answer = <<>>
    /\ EngineIdle

\* one call of _format_period(period_start)
FormatPeriod ==
    /\ period_label = <<>>
    /\ period_label' = <<format_period(start_date)>>
    /\ UNCHANGED <<evars, existing_tables, probe_answer, start_date>>

SpecFormat == FormatInit /\ [][FormatPeriod]_vars

\* ------------------------------------------------------------------ claims
\* rows returned by the first k tenant pipelines that ended
RECURSIVE RowsOfFirst(_)
RowsOfFirst(k) ==
    IF k = 0 THEN 0 ELSE RowsOfFirst(k - 1) + Len(history[k].rows)

\* the elements of a sequence
Range(seq) == {seq[i] : i \in 1..Len(seq)}

\* the positions of the rows named TOTAL among rows
TotalPositions(rows) == {i \in 1..Len(rows) : rows[i].variable = TOTAL}

\* the rows not named TOTAL, in order
NonTotalRows(rows) ==
    LET NotTotal(row) == row.variable # TOTAL
    IN  SelectSeq(rows, NotTotal)

\* the pipelines that ended on a real (primary or simplified) query result
RealPaths == {"primary", "simplified"}

\* C1: once a tenant's pipeline has ended (rows returned from the real data,
\* the schema rejected, the empty-result fallback, or an exception), the
\* connection acquired for that tenant is no longer open.
C1_ConnectionReleased ==
    \A k \in 1..Len(history) : history[k].subdomain \notin connections

\* C2: generate_report never raises, whatever the tenants' outcomes: each
\* tenant's pipeline ends in turn, in registry order, and a report that is
\* returned has gone through every tenant of the registry.
C2_NeverAborts ==
    /\ outcome # "raised"
    /\ Len(history) <= Len(registry)
    /\ \A k \in 1..Len(history) : history[k].subdomain = registry[k]
    /\ outcome = "returned" => Len(history) = Len(registry)

\* a report was returned although the first tenant failed, and the tenants
\* after it were still processed
C2_Witness ==
    /\ outcome = "returned"
    /\ Len(history) >= 2
    /\ history[1].failure \in {"connect", "probe", "query", "empty"}
    /\ history[2].returned

\* C3: a tenant whose connection acquisition fails is recorded in
\* subdomains_processed and contributes exactly the six rows of the mock
\* dataset to the report's data.
C3_ConnectFailureGivesMock ==
    \A k \in 1..Len(history) :
        history[k].failure = "connect" =>
            /\ history[k].returned
            /\ k <= Len(processed_subdomains)
            /\ processed_subdomains[k] = history[k].subdomain
            /\ Len(history[k].rows) = 6
            /\ Len(all_data) >= RowsOfFirst(k)
            /\ \A i \in 1..6 :
                  /\ history[k].rows[i].variable = mock_variables_data[i].variable_name
                  /\ all_data[RowsOfFirst(k - 1) + i].variable
                         = mock_variables_data[i].variable_name
                  /\ all_data[RowsOfFirst(k - 1) + i].nombre_agente
                         = get_agent_name_by_subdomain(history[k].subdomain)
            /\ outcome = "returned" =>
                  /\ report.subdomains_processed[k] = history[k].subdomain
                  /\ report.data = all_data

\* a report was returned in which some tenant could not be connected to
C3_Witness ==
    /\ outcome = "returned"
    /\ \E k \in 1..Len(history) : history[k].failure = "connect"

\* C4: after generate_report returns, subdomains_processed is the registry:
\* every tenant once, in iteration order, whichever tenants failed.
C4_ProcessedIsRegistry ==
    outcome = "returned" => report.subdomains_processed = registry

\* a report over several tenants was returned, one of which failed to connect
\* while another gave real rows
C4_Witness ==
    /\ outcome = "returned"
    /\ Len(registry) >= 2
    /\ \E k \in 1..Len(history) : history[k].failure = "connect"
    /\ \E k \in 1..Len(history) : history[k].path \in RealPaths

\* C5: in a returned report total_records is the number of rows of data, and
\* that is the sum of the numbers of rows the tenants' pipelines returned.
C5_TotalRecords ==
    outcome = "returned" =>
        /\ report.total_records = Len(report.data)
        /\ report.total_records = RowsOfFirst(Len(history))

\* a returned report holding mock rows of one tenant and real rows of another
C5_Witness ==
    /\ outcome = "returned"
    /\ report.total_records > 6
    /\ \E k \in 1..Len(history) : history[k].path = "mock"
    /\ \E k \in 1..Len(history) :
          history[k].path \in RealPaths /\ history[k].rows # <<>>

\* C6: if some record's normalized name equals the normalized input name,
\* the resolver returns the code of such a record (a record that matches
\* exactly), whatever other records the table holds and wherever they are.
C6_ExactMatchWins ==
    (r_code # "pending" /\ r_code # "unused" /\ r_name # <<>>) =>
        \A i \in 1..Len(nin_data) :
            NormalizeName(nin_data[i].ac) = NormalizeName(r_name) =>
                \E j \in 1..Len(nin_data) :
                    /\ NormalizeName(nin_data[j].ac) = NormalizeName(r_name)
                    /\ r_code = nin_data[j].nin

\* C7: in every tenant's rows, each of the TOTAL row's meta_asignada,
\* meta_distribuida, incentivo_asignado and incentivo_distribuido equals the
\* sum of that field over the tenant's rows that are not the TOTAL row.
C7_TotalIsSumOfRows ==
    \A k \in 1..Len(history) :
        \A i \in TotalPositions(history[k].rows) :
            LET total == history[k].rows[i]
                others == NonTotalRows(history[k].rows)
            IN  /\ total.meta_asignada = SumOf(others, "meta_asignada")
                /\ total.meta_distribuida = SumOf(others, "meta_distribuida")
                /\ total.incentivo_asignado = SumOf(others, "incentivo_asignado")
                /\ total.incentivo_distribuido = SumOf(others, "incentivo_distribuido")

\* C8 as stated: every tenant that contributes rows, whichever path produced
\* them, has exactly one row named TOTAL, and it is the last of its rows.
C8_OneTotalRowLast ==
    \A k \in 1..Len(history) :
        history[k].rows # <<>> =>
            TotalPositions(history[k].rows) = {Len(history[k].rows)}

\* C8: a tenant whose rows come from the primary or the simplified query has
\* exactly one row named TOTAL, the last of its rows; a tenant served the
\* mock data contributes the six mock variables and no TOTAL row.
C8_OneTotalRowOnRealPaths ==
    \A k \in 1..Len(history) :
        history[k].rows # <<>> =>
            IF history[k].path \in RealPaths
            THEN TotalPositions(history[k].rows) = {Len(history[k].rows)}
            ELSE /\ history[k].path = "mock"
                 /\ Len(history[k].rows) = 6
                 /\ TotalPositions(history[k].rows) = {}

\* one tenant gave rows from the simplified query and another the mock data
C8_Witness ==
    /\ \E k \in 1..Len(history) :
          history[k].path = "simplified" /\ Len(history[k].rows) >= 2
    /\ \E k \in 1..Len(history) :
          history[k].path = "mock" /\ history[k].rows # <<>>

\* C9: in every row of a report (variable rows and TOTAL rows of every path)
\* an assigned goal that is not positive comes with a goal percentage of
\* exactly 0, and no percentage was computed by dividing by zero.
C9_NoGoalNoPercentage ==
    /\ ~zero_division
    /\ \A i \in 1..Len(all_data) :
          all_data[i].meta_asignada <= 0 => all_data[i].porcentaje_meta = 0

\* a tenant's rows were built, one of them for a goal of zero
C9_Witness ==
    /\ ~zero_division
    /\ \E i \in 1..Len(all_data) :
          all_data[i].meta_asignada <= 0 /\ all_data[i].porcentaje_meta = 0

\* C10: in every row of a report (variable rows and TOTAL rows of every
\* path) an assigned incentive that is not positive comes with an
\* incentive-execution percentage of exactly 0.
C10_NoIncentiveNoExecution ==
    \A i \in 1..Len(all_data) :
        all_data[i].incentivo_asignado <= 0 =>
            all_data[i].porcentaje_ejecucion_incentivo = 0

\* a row built from a query result with nothing assigned although incentives
\* were distributed, and the TOTAL row of such a tenant
C10_Witness ==
    \E k \in 1..Len(history) :
        /\ history[k].path \in RealPaths
        /\ \E i \in 1..Len(history[k].rows) :
              /\ history[k].rows[i].variable # TOTAL
              /\ history[k].rows[i].incentivo_asignado <= 0
              /\ history[k].rows[i].incentivo_distribuido > 0
              /\ history[k].rows[i].porcentaje_ejecucion_incentivo = 0
        /\ \E i \in TotalPositions(history[k].rows) :
              /\ history[k].rows[i].incentivo_asignado <= 0
              /\ history[k].rows[i].incentivo_distribuido > 0
              /\ history[k].rows[i].porcentaje_ejecucion_incentivo = 0

\* the sum of a column of a query result over the rows of one variable name
RECURSIVE ColumnSum(_, _, _)
ColumnSum(res, name, column) ==
    IF res = <<>> THEN 0
    ELSE (IF Head(res).variable_name = name THEN Head(res)[column] ELSE 0)
         + ColumnSum(Tail(res), name, column)

\* the display names of a query result that are not the budget execution
ReportedNames(res) ==
    {res[i].variable_name : i \in {j \in 1..Len(res) :
                                     ~IsBudgetExecution(res[j].variable_name)}}

\* the reported variables whose distributed goal reaches an assigned goal > 0
ReachedNames(res) ==
    {name \in ReportedNames(res) :
        /\ ColumnSum(res, name, "meta_asignada_agente") > 0
        /\ ColumnSum(res, name, "meta_distribuida_vendors")
               >= ColumnSum(res, name, "meta_asignada_agente")}

\* the share of reached variables, in 1/100 of a percent
ReachedShare(res) ==
    IF ReportedNames(res) = {} THEN 0
    ELSE RoundDiv(Cardinality(ReachedNames(res)) * 10000,
                  Cardinality(ReportedNames(res)))

\* C11: every row of a tenant (variable rows and the TOTAL row) carries the
\* same porcentaje_variables_completadas, and on the real paths that value is
\* the percentage of the tenant's reported variables whose accumulated
\* distributed goal is at least their assigned goal, the assigned goal being
\* positive; the mock rows, none of which reaches its goal, carry 0.
C11_SameCompletedShare ==
    \A k \in 1..Len(history) :
        LET rows == history[k].rows
        IN  /\ \A i, j \in 1..Len(rows) :
                  rows[i].porcentaje_variables_completadas
                      = rows[j].porcentaje_variables_completadas
            /\ history[k].path \in RealPaths =>
                  \A i \in 1..Len(rows) :
                      rows[i].porcentaje_variables_completadas
                          = ReachedShare(history[k].results)
            /\ history[k].path = "mock" =>
                  \A i \in 1..Len(rows) :
                      rows[i].porcentaje_variables_completadas
                          = RoundDiv(Cardinality({j \in 1..Len(rows) :
                                         /\ rows[j].meta_asignada > 0
                                         /\ rows[j].meta_distribuida
                                                >= rows[j].meta_asignada}) * 10000,
                                     Len(rows))

\* a tenant with one variable that reached its goal and one that did not:
\* its two variable rows and its TOTAL row all carry 50 %
C11_Witness ==
    \E k \in 1..Len(history) :
        /\ history[k].path \in RealPaths
        /\ Len(history[k].rows) = 3
        /\ Cardinality(ReachedNames(history[k].results)) = 1
        /\ \A i \in 1..3 :
              history[k].rows[i].porcentaje_variables_completadas = 5000

\* C12: every row of the mock path has exactly the field names of every row
\* of the real paths (variable rows and TOTAL rows): any two rows of a report
\* have the same set of field names.
C12_SameFieldNames ==
    \A i, j \in 1..Len(all_data) : DOMAIN all_data[i] = DOMAIN all_data[j]

\* a report's data holding mock rows of one tenant and variable rows and a
\* TOTAL row of another
C12_Witness ==
    /\ \E k \in 1..Len(history) :
          history[k].path = "mock" /\ history[k].rows # <<>>
    /\ \E k \in 1..Len(history) :
          /\ history[k].path \in RealPaths
          /\ TotalPositions(history[k].rows) # {}
          /\ NonTotalRows(history[k].rows) # <<>>
    /\ Len(all_data) = RowsOfFirst(Len(history))

\* the distributed incentive accumulated for one variable name: the value of
\* the incentive query for the row's variable id, once per query row
RECURSIVE IncentiveSum(_, _, _)
IncentiveSum(res, name, incentives) ==
    IF res = <<>> THEN 0
    ELSE (IF Head(res).variable_name = name
          THEN (IF Head(res).variable_id \in DOMAIN incentives
                THEN incentives[Head(res).variable_id] ELSE 0)
          ELSE 0)
         + IncentiveSum(Tail(res), name, incentives)

\* the query result without the rows of the budget execution
RECURSIVE ReportedRows(_)
ReportedRows(res) ==
    IF res = <<>> THEN <<>>
    ELSE IF IsBudgetExecution(Head(res).variable_name) THEN ReportedRows(Tail(res))
    ELSE <<Head(res)>> \o ReportedRows(Tail(res))

\* sums over all reported rows of a query result
RECURSIVE ColumnTotal(_, _)
ColumnTotal(res, column) ==
    IF res = <<>> THEN 0 ELSE Head(res)[column] + ColumnTotal(Tail(res), column)

RECURSIVE IncentiveTotal(_, _)
IncentiveTotal(res, incentives) ==
    IF res = <<>> THEN 0
    ELSE (IF Head(res).variable_id \in DOMAIN incentives
          THEN incentives[Head(res).variable_id] ELSE 0)
         + IncentiveTotal(Tail(res), incentives)

\* 100 * num / den rounded to two decimals, in 1/100 of a percent
Ratio(num, den) == RoundDiv(num * 10000, den)

\* C13: on every variable row and every TOTAL row, a positive assigned goal
\* comes with a goal percentage of 100 x distributed goal / assigned goal
\* rounded to two decimals, and a positive assigned incentive with an
\* execution percentage of 100 x distributed incentive / assigned incentive
\* rounded to two decimals, the goals and incentives being the ones
\* accumulated for the variable (for the TOTAL row: for the tenant).
C13_PercentagesAreRatios ==
    \A k \in 1..Len(history) :
        LET rows == history[k].rows
            res == ReportedRows(history[k].results)
            inc == history[k].incentives
        IN  /\ history[k].path \in RealPaths =>
                  \A i \in 1..Len(rows) :
                      IF rows[i].variable = TOTAL
                      THEN /\ ColumnTotal(res, "meta_asignada_agente") > 0 =>
                                rows[i].porcentaje_meta
                                    = Ratio(ColumnTotal(res, "meta_distribuida_vendors"),
                                            ColumnTotal(res, "meta_asignada_agente"))
                           /\ ColumnTotal(res, "incentivo_asignado_puntos") > 0 =>
                                rows[i].porcentaje_ejecucion_incentivo
                                    = Ratio(IncentiveTotal(res, inc),
                                            ColumnTotal(res, "incentivo_asignado_puntos"))
                      ELSE LET name == rows[i].variable
                           IN  /\ ColumnSum(res, name, "meta_asignada_agente") > 0 =>
                                    rows[i].porcentaje_meta
                                        = Ratio(ColumnSum(res, name, "meta_distribuida_vendors"),
                                                ColumnSum(res, name, "meta_asignada_agente"))
                               /\ ColumnSum(res, name, "incentivo_asignado_puntos") > 0 =>
                                    rows[i].porcentaje_ejecucion_incentivo
                                        = Ratio(IncentiveSum(res, name, inc),
                                                ColumnSum(res, name, "incentivo_asignado_puntos"))
            /\ history[k].path = "mock" =>
                  \A i \in 1..Len(rows) :
                      /\ rows[i].meta_asignada > 0 =>
                            rows[i].porcentaje_meta
                                = Ratio(rows[i].meta_distribuida, rows[i].meta_asignada)
                      /\ rows[i].incentivo_asignado > 0 =>
                            rows[i].porcentaje_ejecucion_incentivo
                                = Ratio(rows[i].incentivo_distribuido,
                                        rows[i].incentivo_asignado)

\* a variable with half of its goal distributed and a quarter of its
\* incentive executed: its row carries 50.00 and 25.00, and so does the TOTAL
\* row of the tenant, whose only variable it is
C13_Witness ==
    \E k \in 1..Len(history) :
        /\ history[k].path \in RealPaths
        /\ Len(history[k].rows) = 2
        /\ history[k].rows[2].variable = TOTAL
        /\ \A i \in 1..2 :
              /\ history[k].rows[i].meta_asignada > 0
              /\ 2 * history[k].rows[i].meta_distribuida = history[k].rows[i].meta_asignada
              /\ history[k].rows[i].incentivo_asignado > 0
              /\ 4 * history[k].rows[i].incentivo_distribuido
                     = history[k].rows[i].incentivo_asignado
              /\ history[k].rows[i].porcentaje_meta = 5000
              /\ history[k].rows[i].porcentaje_ejecucion_incentivo = 2500

\* C14: a tenant whose primary query and simplified query both succeed and
\* both return no row gets exactly the mock dataset: the six fixed variables
\* with their fixed values, for that tenant and period, the tenant's code
\* being the one the identity resolver gives for the tenant's display name.
C14_EmptyResultsGiveMock ==
    \A k \in 1..Len(history) :
        history[k].failure = "empty" =>
            LET rows == history[k].rows
                name == get_agent_name_by_subdomain(history[k].subdomain)
            IN  /\ history[k].returned
                /\ Len(rows) = Len(mock_variables_data)
                /\ Len(rows) = 6
                /\ \A i \in 1..Len(rows) :
                      /\ rows[i].variable = mock_variables_data[i].variable_name
                      /\ rows[i].meta_asignada
                             = mock_variables_data[i].total_meta_asignada
                      /\ rows[i].meta_distribuida
                             = mock_variables_data[i].total_meta_distribuida
                      /\ rows[i].incentivo_asignado
                             = mock_variables_data[i].total_incentivo_asignado
                      /\ rows[i].incentivo_distribuido
                             = mock_variables_data[i].total_incentivo_distribuido
                      /\ rows[i].porcentaje_meta = 0
                      /\ rows[i].porcentaje_variables_completadas = 0
                      /\ rows[i].porcentaje_ejecucion_incentivo = 0
                      /\ rows[i].nombre_agente = name
                      /\ rows[i].codigo_agente = get_agent_code_by_name(name, nin_data)
                      /\ rows[i].periodo_tiempo = PeriodoLabel(period_id)
                      /\ rows[i].user_id = None
                      /\ rows[i].program_id = 1

\* both queries of a tenant known to the identity table returned no row
C14_Witness ==
    \E k \in 1..Len(history) :
        /\ history[k].failure = "empty"
        /\ history[k].results = <<>>
        /\ Len(history[k].rows) = 6
        /\ history[k].rows[1].codigo_agente # UNKNOWN

\* C15: when the whole-report deadline expires while a tenant's pipeline is
\* suspended, the caller gets the timed-out answer (408), which is neither a
\* report (200) nor the generic failure (500): the expiry is not turned into
\* mock rows for that tenant, and no report is returned afterwards.
C15_TimeoutIsDistinct ==
    [][ /\ Cancel =>
            /\ outcome' = "timeout"
            /\ status_code' = 408
            /\ pc' = "done"
            /\ UNCHANGED <<all_data, processed_subdomains, history, report>>
        /\ outcome = "timeout" => outcome' = "timeout"
        /\ status_code' = 408 <=> outcome' = "timeout"
      ]_vars

\* the deadline expired while the second tenant's pipeline was suspended,
\* after the first tenant had failed and been given mock rows
C15_Witness ==
    /\ outcome = "timeout"
    /\ status_code = 408
    /\ Len(history) = 1
    /\ history[1].path = "mock"
    /\ idx = 2

\* C16: every tenant recorded in processed_subdomains has produced output:
\* its pipeline returned at least one row, whatever its queries answered.
C16_ProcessedTenantsHaveRows ==
    \A k \in 1..Len(history) :
        (history[k].returned /\ history[k].subdomain \in Range(processed_subdomains))
            => history[k].rows # <<>>

\* the words of a name that are not company suffixes or stop words
ImportantWords(name) == agent_important_words(NormalizeName(name))

\* two names that differ only in case, spacing and stop words
SameButStopWords(a, b) == ImportantWords(a) = ImportantWords(b)

\* at least 70 % of the important words of a are words of b
SharesSeventyPercent(a, b) ==
    10 * Cardinality(ImportantWords(a) \cap ImportantWords(b))
        >= 7 * Cardinality(ImportantWords(a))

\* the resolver has answered
Resolved == r_code # "pending" /\ r_code # "unused"

\* C17 as stated: the answer does not depend on the letters' case nor on the
\* length of the runs of blanks of the input, and an input that differs from
\* a stored name only in case, spacing and stop words, and shares at least
\* 70 % of its important words with it, gets the code the stored name gets.
C17_SameCodeAsStoredName ==
    Resolved =>
        /\ r_code = get_agent_code_by_name(lower(r_name), nin_data)
        /\ \A i \in 1..Len(nin_data) :
              (r_name # <<>>
                  /\ SameButStopWords(r_name, nin_data[i].ac)
                  /\ SharesSeventyPercent(r_name, nin_data[i].ac))
                  => r_code = get_agent_code_by_name(nin_data[i].ac, nin_data)

\* C17: the answer does not depend on the letters' case nor on the length of
\* the runs of blanks of the input, and an input with at least one important
\* word that differs from a stored name only in case, spacing and stop words
\* gets the code the stored name gets.
C17_SameCodeWithImportantWords ==
    Resolved =>
        /\ r_code = get_agent_code_by_name(lower(r_name), nin_data)
        /\ \A i \in 1..Len(nin_data) :
              (SameButStopWords(r_name, nin_data[i].ac)
                  /\ SharesSeventyPercent(r_name, nin_data[i].ac)
                  /\ ImportantWords(r_name) # {})
                  => r_code = get_agent_code_by_name(nin_data[i].ac, nin_data)

\* the irregularly spaced, mixed-case name with another suffix was resolved
\* to the code of the stored name it stands for
C17_Witness ==
    /\ Resolved
    /\ r_name = ComercialNutricol
    /\ nin_data = SampleNinData
    /\ r_code = SampleNinData[2].nin
    /\ SameButStopWords(r_name, SampleNinData[2].ac)
    /\ NormalizeName(r_name) # SampleNinData[2].ac

\* the query rows whose display name is not the budget-execution variable
WithoutBudgetExecution(res) ==
    LET Kept(row) == row.variable_name # EjecucionPresupuestal
    IN  SelectSeq(res, Kept)

\* C18: on the real paths the budget-execution variable is left out
\* entirely: no row carries it, there is one row per other variable, and the
\* TOTAL row and the variables-completed percentage are the ones of the
\* query result without the budget-execution rows.
C18_BudgetExecutionExcluded ==
    \A k \in 1..Len(history) :
        history[k].path \in RealPaths =>
            LET rows == history[k].rows
                kept == WithoutBudgetExecution(history[k].results)
                inc == history[k].incentives
            IN  /\ \A i \in 1..Len(rows) :
                      /\ rows[i].variable # EjecucionPresupuestal
                      /\ rows[i].porcentaje_variables_completadas = ReachedShare(kept)
                /\ {rows[i].variable : i \in 1..Len(rows)} \ {TOTAL}
                       = {kept[i].variable_name : i \in 1..Len(kept)}
                /\ \A i \in TotalPositions(rows) :
                      /\ rows[i].meta_asignada
                             = round2(ColumnTotal(kept, "meta_asignada_agente"))
                      /\ rows[i].meta_distribuida
                             = round2(ColumnTotal(kept, "meta_distribuida_vendors"))
                      /\ rows[i].incentivo_asignado
                             = round2(ColumnTotal(kept, "incentivo_asignado_puntos"))
                      /\ rows[i].incentivo_distribuido
                             = round2(IncentiveTotal(kept, inc))

\* a query result with a budget-execution row that reached its goal and had
\* incentives assigned and distributed, next to a variable that did not: the
\* tenant's rows are that variable's and the TOTAL row, both at 0 %
C18_Witness ==
    \E k \in 1..Len(history) :
        /\ history[k].path \in RealPaths
        /\ Len(history[k].results) = 2
        /\ history[k].results[1].variable_name = EjecucionPresupuestal
        /\ history[k].results[1].meta_distribuida_vendors
               >= history[k].results[1].meta_asignada_agente
        /\ history[k].results[1].incentivo_asignado_puntos > 0
        /\ history[k].results[1].variable_id \in DOMAIN history[k].incentives
        /\ Len(history[k].rows) = 2
        /\ history[k].rows[2].variable = TOTAL
        /\ history[k].rows[2].meta_asignada = history[k].rows[1].meta_asignada
        /\ history[k].rows[2].porcentaje_variables_completadas = 0

\* the named variables that are reported, in their priority order
PriorityNames == <<Pideky, GestionDeActivos, Efectividad>>

\* the place of a variable name in the priority order; the others share the
\* place after the last
PriorityPlace(name) ==
    IF \E i \in 1..Len(PriorityNames) : PriorityNames[i] = name
    THEN CHOOSE i \in 1..Len(PriorityNames) : PriorityNames[i] = name
    ELSE Len(PriorityNames) + 1

\* the row of variable a comes before the row of variable b
RowBefore(a, b) ==
    \/ PriorityPlace(a) < PriorityPlace(b)
    \/ /\ PriorityPlace(a) = PriorityPlace(b)
       /\ PriorityPlace(a) > Len(PriorityNames)
       /\ NameBefore(a, b)

\* C19: on the real paths the variable rows come in the fixed priority order
\* (the named variables first, in their priority order, then every other
\* variable by display name), one row per distinct display name of the query
\* result, and the TOTAL row comes last, however many query rows were folded
\* into a variable.
C19_RowsInPriorityOrder ==
    \A k \in 1..Len(history) :
        (history[k].path \in RealPaths /\ history[k].rows # <<>>) =>
            LET rows == history[k].rows
                kept == WithoutBudgetExecution(history[k].results)
            IN  /\ TotalPositions(rows) = {Len(rows)}
                /\ \A i, j \in 1..(Len(rows) - 1) :
                      i < j => RowBefore(rows[i].variable, rows[j].variable)
                /\ {rows[i].variable : i \in 1..(Len(rows) - 1)}
                       = {kept[i].variable_name : i \in 1..Len(kept)}

\* a result with two query rows of one variable followed by a variable that
\* sorts after it by name only: two variable rows in that order, then TOTAL
C19_Witness ==
    \E k \in 1..Len(history) :
        /\ history[k].path \in RealPaths
        /\ Len(history[k].results) = 3
        /\ history[k].results[1].variable_name = history[k].results[2].variable_name
        /\ Len(history[k].rows) = 3
        /\ history[k].rows[1].variable = Cobertura
        /\ history[k].rows[2].variable = Volumen
        /\ history[k].rows[3].variable = TOTAL

\* rows returned by the pipelines recorded in h, in order
RECURSIVE AllRows(_)
AllRows(h) == IF h = <<>> THEN <<>> ELSE Head(h).rows \o AllRows(Tail(h))

\* the period labels a generation for period p can write
PeriodLabels(p) ==
    {PeriodoLabel(p)} \cup {FormatDate(d[1]) : d \in StartDates \ {<<>>}}

\* the locals ctx of a generation hold what the generation produces when it
\* runs alone with the answers its own queries got: every tenant in turn, the
\* rows built from its own results for its own period, and a report made of
\* those rows only
RunsAsAlone(ctx) ==
    LET rows == AllRows(ctx.history)
    IN  /\ Len(ctx.history) <= Len(registry)
        /\ \A k \in 1..Len(ctx.history) :
              /\ ctx.history[k].subdomain = registry[k]
              /\ ctx.history[k].returned
              /\ ctx.history[k].path = "mock" => Len(ctx.history[k].rows) = 6
              /\ ctx.history[k].path \in RealPaths =>
                    Len(ctx.history[k].rows)
                        = Len(BuildReportData(ctx.history[k].results,
                                              ctx.history[k].incentives,
                                              registry[k], PeriodoLabel(ctx.period_id),
                                              nin_data).rows)
        /\ Len(ctx.all_data) = Len(rows)
        /\ \A i \in 1..Len(rows) :
              /\ ctx.all_data[i].variable = rows[i].variable
              /\ ctx.all_data[i].periodo_tiempo = rows[i].periodo_tiempo
              /\ ctx.all_data[i].meta_distribuida = rows[i].meta_distribuida
              /\ ctx.all_data[i].incentivo_distribuido = rows[i].incentivo_distribuido
              /\ rows[i].periodo_tiempo \in PeriodLabels(ctx.period_id)
        /\ ctx.outcome = "returned" =>
              /\ Len(ctx.history) = Len(registry)
              /\ ctx.report.subdomains_processed = registry
              /\ ctx.report.total_records = Len(rows)
              /\ Len(ctx.report.data) = Len(rows)
              /\ \A i \in 1..Len(rows) :
                    /\ ctx.report.data[i].variable = rows[i].variable
                    /\ ctx.report.data[i].periodo_tiempo = rows[i].periodo_tiempo

\* C20: two generations interleaved at their suspension points each produce
\* what they produce alone, and the registry and the identity table, the only
\* state they share, are never written.
C20_ConcurrentRunsAreIsolated ==
    /\ registry = <<SampleSubdomains[1]>>
    /\ nin_data = SampleNinData
    /\ RunsAsAlone(Context)
    /\ \A i \in 1..Len(parked) : RunsAsAlone(parked[i])

\* the generation for period 8 was suspended in its pipeline, the one for
\* period 9 ran and returned mock rows, and the first then returned rows
\* built from a query result
C20_Witness ==
    /\ parked # <<>>
    /\ period_id = 8
    /\ outcome = "returned"
    /\ history[1].path \in RealPaths
    /\ Len(report.data) = 3
    /\ parked[1].period_id = 9
    /\ parked[1].outcome = "returned"
    /\ parked[1].history[1].path = "mock"
    /\ Len(parked[1].report.data) = 6

\* a tenant's pipeline has ended and no later one has started: steps is the
\* log of the pipeline of the last record of history
PipelineEnded ==
    /\ history # <<>>
    /\ steps # <<>>
    /\ pc \in {"connect", "return", "done"}
    /\ steps[Len(steps)][3] \notin {"cancelled", "raised"}

\* the last entry of the log
LastStep == steps[Len(steps)]

\* the log holds the entry <<step, path, what>>
Logged(step, path, what) == \E i \in 1..Len(steps) : steps[i] = <<step, path, what>>

\* rows are the six rows of the mock dataset for the tenant sub: the fixed
\* variables with their fixed values, under the tenant's display name
IsMockDataset(rows, sub) ==
    /\ Len(rows) = 6
    /\ \A i \in 1..Len(rows) :
          /\ i <= Len(mock_variables_data)
          /\ rows[i].variable = mock_variables_data[i].variable_name
          /\ rows[i].meta_asignada = mock_variables_data[i].total_meta_asignada
          /\ rows[i].meta_distribuida = mock_variables_data[i].total_meta_distribuida
          /\ rows[i].incentivo_asignado = mock_variables_data[i].total_incentivo_asignado
          /\ rows[i].incentivo_distribuido
                 = mock_variables_data[i].total_incentivo_distribuido
          /\ rows[i].nombre_agente = get_agent_name_by_subdomain(sub)
          /\ rows[i].periodo_tiempo = PeriodoLabel(period_id)
          /\ rows[i].user_id = None

\* the last n elements of a sequence
LastRows(seq, n) == SubSeq(seq, Len(seq) - n + 1, Len(seq))

\* C21: when the primary or the simplified aggregation query of a tenant
\* raises after the schema probe succeeded, the tenant's rows are exactly the
\* six rows of the mock dataset (no row of a real variable among them), they
\* are what the tenant adds to the report's rows, and the tenant is listed in
\* processed_subdomains.
C21_QueryFailureGivesMock ==
    /\ \A k \in 1..Len(history) :
          history[k].failure = "query" =>
              /\ history[k].returned
              /\ history[k].path = "mock"
              /\ IsMockDataset(history[k].rows, history[k].subdomain)
              /\ \A i \in 1..Len(history[k].rows) :
                    history[k].rows[i].variable
                        \notin {v.name : v \in SampleVariables} \cup {TOTAL}
              /\ k <= Len(processed_subdomains)
              /\ processed_subdomains[k] = history[k].subdomain
    /\ (PipelineEnded /\ LastStep[1] = "query" /\ LastStep[3] = "query") =>
          LET last == history[Len(history)]
          IN  /\ Logged("probe", "primary", "ok")
              /\ last.failure = "query"
              /\ Len(all_data) >= 6
              /\ LastRows(all_data, 6) = last.rows
              /\ processed_subdomains[Len(processed_subdomains)] = last.subdomain

\* the first tenant's query raised, and so did the second tenant's simplified
\* query once its primary query had returned no row; both were served the
\* mock dataset
C21_Witness ==
    /\ PipelineEnded
    /\ Len(history) = 2
    /\ history[1].failure = "query"
    /\ LastStep = <<"query", "simplified", "query">>
    /\ Logged("query", "primary", "empty")
    /\ history[2].path = "mock"
    /\ Len(history[2].rows) = 6
    /\ Len(all_data) = 12

\* the steps of the aggregation functions
AggregationSteps == {"cursor", "incentives", "query", "period_info"}

\* what a log entry says when its step raised
ErrorMarks == {"connect", "cursor", "incentives", "query", "division", "cancelled",
               "raised"}
                  \cup ProbeFailures

\* C22: in the log of a tenant's pipeline, every step of an aggregation query
\* comes after the schema probe answered that the schema is in place; every
\* step of the simplified query comes after the primary query returned zero
\* rows; and a pipeline that ended on the mock dataset without any step
\* raising ended either on the probe rejecting the schema or on the
\* simplified query returning zero rows after the primary query had.
C22_StepsInOrder ==
    /\ \A i \in 1..Len(steps) :
          steps[i][1] \in AggregationSteps =>
              \E j \in 1..(i - 1) : steps[j] = <<"probe", "primary", "ok">>
    /\ \A i \in 1..Len(steps) :
          steps[i][2] = "simplified" =>
              \E j \in 1..(i - 1) : steps[j] = <<"query", "primary", "empty">>
    /\ (/\ PipelineEnded
        /\ history[Len(history)].path = "mock"
        /\ \A i \in 1..Len(steps) : steps[i][3] \notin ErrorMarks) =>
          \/ LastStep = <<"probe", "primary", "schema">>
          \/ /\ LastStep = <<"query", "simplified", "empty">>
             /\ Logged("query", "primary", "empty")
             /\ Logged("probe", "primary", "ok")

\* the first tenant was served the mock dataset because the probe rejected
\* its schema, the second because its primary query and then its simplified
\* query returned no row
C22_Witness ==
    /\ PipelineEnded
    /\ Len(history) = 2
    /\ history[1].failure = "schema"
    /\ history[1].path = "mock"
    /\ history[2].path = "mock"
    /\ Len(steps) = 8
    /\ steps[2] = <<"probe", "primary", "ok">>
    /\ steps[5] = <<"query", "primary", "empty">>
    /\ steps[6] = <<"cursor", "simplified", "ok">>
    /\ LastStep = <<"query", "simplified", "empty">>

\* the names of the rows that are not the TOTAL row, in order
RowNames(rows) == [i \in 1..Len(NonTotalRows(rows)) |-> NonTotalRows(rows)[i].variable]

\* C23: when the distributed-incentive query raises, _get_distributed_incentives
\* returns the empty mapping and the pipeline goes on to the aggregation query;
\* if that query returns rows, the tenant's rows are the ones built from them
\* (one per reported variable, with its accumulated assigned goal), and every
\* row, the TOTAL row included, has distributed incentive 0.
C23_IncentiveFailureGivesZero ==
    /\ \A i \in 1..Len(steps) :
          steps[i][1] = "incentives" /\ steps[i][3] = "error" =>
              IF i = Len(steps)
              THEN pc = "query" /\ distributed_incentives = <<>>
              ELSE steps[i + 1][1] = "query"
    /\ (PipelineEnded /\ history[Len(history)].path \in RealPaths
           /\ Logged("incentives", history[Len(history)].path, "error")) =>
          LET last == history[Len(history)]
          IN  /\ last.returned
              /\ last.incentives = <<>>
              /\ Range(RowNames(last.rows)) = ReportedNames(last.results)
              /\ Len(RowNames(last.rows)) = Cardinality(ReportedNames(last.results))
              /\ \A i \in 1..Len(last.rows) :
                    /\ last.rows[i].incentivo_distribuido = 0
                    /\ last.rows[i].variable # TOTAL =>
                          last.rows[i].meta_asignada
                              = round2(ColumnSum(last.results, last.rows[i].variable,
                                                 "meta_asignada_agente"))

\* the distributed-incentive query of a tenant raised, its primary query
\* returned two variables with an assigned incentive, and its three rows show
\* the assigned incentive with nothing distributed
C23_Witness ==
    /\ PipelineEnded
    /\ Logged("incentives", "primary", "error")
    /\ history[Len(history)].path = "primary"
    /\ Len(history[Len(history)].rows) = 3
    /\ \A i \in 1..3 :
          /\ history[Len(history)].rows[i].incentivo_asignado > 0
          /\ history[Len(history)].rows[i].incentivo_distribuido = 0

\* the id of the variable a display name stands for in a query result: the
\* variable_id of the first row of that name
VariableIdOf(res, name) ==
    res[CHOOSE i \in 1..Len(res) :
            /\ res[i].variable_name = name
            /\ \A j \in 1..(i - 1) : res[j].variable_name # name].variable_id

\* C24: in the rows built from a query result, the distributed incentive of
\* each variable row is the total the distributed-incentive mapping holds for
\* that variable's id, and 0 when the id is not in the mapping, however many
\* query rows carry the variable's display name.
C24_IncentiveIsVariableTotal ==
    \A k \in 1..Len(history) :
        history[k].path \in RealPaths =>
            \A i \in 1..Len(history[k].rows) :
                LET row == history[k].rows[i]
                    id == VariableIdOf(history[k].results, row.variable)
                IN  row.variable # TOTAL =>
                        row.incentivo_distribuido
                            = IF id \in DOMAIN history[k].incentives
                              THEN history[k].incentives[id]
                              ELSE 0

\* _check_tables_exist was called and has answered
ProbeAnswered == probe_answer # <<>>

\* the required tables the catalogue query reported
ReportedPresent == existing_tables \cap RequiredTables

\* C25 as stated: whenever the catalogue query reported the tables of the
\* schema, _check_tables_exist returns true if and only if at least 6 of the 8
\* required tables are among them, and it does not raise.
C25_TrueIffSixTables ==
    (ProbeAnswered /\ probe_answer[1].failure \in {"none", "probe_count"}) =>
        /\ ~probe_answer[1].answer.raised
        /\ probe_answer[1].answer.value <=> Cardinality(ReportedPresent) >= 6

\* C25: _check_tables_exist never raises; when none of its queries fails it
\* returns true if and only if at least 6 of the 8 required tables are
\* reported present; with 5 or fewer reported it returns false; and when the
\* count query on liquidations fails it returns false however many tables
\* were reported.
C25_TrueIffSixTablesAndNoFailure ==
    ProbeAnswered =>
        /\ ~probe_answer[1].answer.raised
        /\ probe_answer[1].failure = "none" =>
              (probe_answer[1].answer.value <=> Cardinality(ReportedPresent) >= 6)
        /\ Cardinality(ReportedPresent) <= 5 => ~probe_answer[1].answer.value
        /\ probe_answer[1].failure # "none" => ~probe_answer[1].answer.value

\* exactly 6 of the required tables are present, liquidations not among them,
\* and the probe answered true
C25_Witness ==
    /\ ProbeAnswered
    /\ probe_answer[1].failure = "none"
    /\ Cardinality(ReportedPresent) = 6
    /\ "liquidations" \notin existing_tables
    /\ probe_answer[1].answer.value

\* C26: when an await of the schema probe raises (creating the cursor, the
\* table-listing query, or the count query on liquidations), nothing is
\* propagated: the probe's step is the pipeline's last, no aggregation step
\* follows it, generate_report does not fail, and the tenant, which is
\* listed as processed, gets exactly the mock dataset.
C26_ProbeFailureGivesMock ==
    /\ \A i \in 1..Len(steps) :
          steps[i][3] \in ProbeFailures =>
              /\ steps[i][1] = "probe"
              /\ i = Len(steps)
              /\ PipelineEnded
              /\ outcome # "raised"
              /\ LET last == history[Len(history)]
                 IN  /\ last.returned
                     /\ last.failure = "probe"
                     /\ last.path = "mock"
                     /\ IsMockDataset(last.rows, last.subdomain)
                     /\ LastRows(all_data, 6) = last.rows
                     /\ processed_subdomains[Len(processed_subdomains)] = last.subdomain
    /\ \A k \in 1..Len(history) :
          history[k].failure = "probe" =>
              /\ history[k].returned
              /\ history[k].path = "mock"
              /\ IsMockDataset(history[k].rows, history[k].subdomain)

\* the probe of the first tenant failed, the count query of the second
\* tenant's probe raised with the probe's cursor open, and both tenants were
\* served the mock dataset
C26_Witness ==
    /\ PipelineEnded
    /\ Len(history) = 2
    /\ history[1].failure = "probe"
    /\ LastStep = <<"probe", "primary", "probe_count">>
    /\ history[2].path = "mock"
    /\ Len(all_data) = 12
    /\ processed_subdomains = registry

\* the positions of the records whose normalized name is the normalized input
ExactMatches ==
    LET asked == NormalizeName(r_name)
    IN  {i \in 1..Len(nin_data) : NormalizeName(nin_data[i].ac) = asked}

\* the positions of the records whose important words share with the input's
\* important words at least one word and at least 70 % of the input's
OverlapMatches ==
    LET asked == ImportantWords(r_name)
    IN  {i \in 1..Len(nin_data) :
            LET shared == asked \cap ImportantWords(nin_data[i].ac)
            IN  /\ Cardinality(shared) >= 1
                /\ 10 * Cardinality(shared) >= 7 * Cardinality(asked)}

TableCodes == {nin_data[i].nin : i \in 1..Len(nin_data)}

\* C28: the resolver returns the literal "UNKNOWN" exactly when the identity
\* table is empty, the input name is empty, or no record matches the input
\* exactly or clears the overlap threshold; any other answer is the code of a
\* record of the table.
C28_UnknownIffNoMatch ==
    Resolved =>
        /\ r_code = "UNKNOWN" <=>
              \/ nin_data = <<>>
              \/ r_name = <<>>
              \/ ExactMatches = {} /\ OverlapMatches = {}
        /\ r_code # "UNKNOWN" => r_code \in TableCodes

\* a name of two important words met a table whose records each share one of
\* them only: no record matches and the answer is "UNKNOWN"
C28_Witness ==
    /\ Resolved
    /\ Len(nin_data) = 2
    /\ Cardinality(ImportantWords(r_name)) = 2
    /\ \A i \in 1..2 :
          Cardinality(ImportantWords(nin_data[i].ac) \cap ImportantWords(r_name)) = 1
    /\ ExactMatches = {}
    /\ r_code = "UNKNOWN"

\* C29: _format_period returns "Periodo <n>" for every integer n, "Periodo
\* Desconocido" for None and for a value that is neither an integer nor a
\* date, and "<Spanish month name> <year>" for a date of month 1 to 12.
C29_LabelByKindOfInput ==
    period_label # <<>> =>
        CASE start_date.type = "int" ->
                 period_label[1] = <<"Periodo", ToString(start_date.value)>>
          [] start_date.type \in {"NoneType", "str"} ->
                 period_label[1] = <<"Periodo", "Desconocido">>
          [] start_date.type = "date" ->
                 start_date.month \in 1..12 =>
                     period_label[1] = <<month_names[start_date.month],
                                         ToString(start_date.year)>>

\* C30: whenever a tenant's pipeline has ended, by returning rows or by an
\* exception, every cursor it opened (for the probe, the incentive query, the
\* primary and the simplified query, the period lookup) has been closed.
C30_CursorsClosed ==
    (history # <<>> /\ pc \in {"connect", "return", "done"}) => open_cursors = {}
====
